---- MODULE Spec2Model ----
(***************************************************************************)
(* A model of the delegation layer of graphql-stitch: the result-tagging   *)
(* utilities (createMergedResult, getErrorsFromParent, relocatedError),    *)
(* the argument-injecting request transform (AddArgumentsAsVariables) and  *)
(* the transform chain.                                                    *)
(*                                                                         *)
(* JavaScript values are modelled as records tagged by `kind`; `undefined` *)
(* for a string-like member is the string "undefined".  JavaScript arrays  *)
(* are sequences: the element with JavaScript index i is at position i+1.  *)
(***************************************************************************)
EXTENDS Integers, Sequences, FiniteSets, TLC

VARIABLES
  \* ---- result tagging ----
  result,          \* createMergedResult's first argument (last call)
  errors,          \* createMergedResult's second argument (last call)
  subschemas,      \* createMergedResult's third argument (last call)
  merged,          \* what the last createMergedResult call returned
  node,            \* the tagged value a resolver currently holds as its parent
  parent,          \* getErrorsFromParent's first argument (last call)
  fieldName,       \* getErrorsFromParent's second argument (last call)
  childrenErrors,  \* what the last getErrorsFromParent call returned
  pc,              \* position of the result pipeline
  \* ---- AddArgumentsAsVariablesTransform ----
  schemaArgs,      \* the transform's args map (this.args)
  originalRequest, \* transformRequest's argument
  transformed,     \* what transformRequest returned (or that it threw)
  generated,       \* per operation, the names generateVariableName returned
  \* ---- transform chain ----
  transforms,      \* the chain: the kind of each transform, in declared order
  phase,           \* the step of the delegation
  cursor,          \* the position in the chain the current reduction is at
  schemaTrail,     \* positions whose transformSchema has acted, in order
  requestTrail,    \* positions whose transformRequest has acted, in order
  resultTrail,     \* positions whose transformResult has acted, in order
  \* ---- relocatedError / combineErrors called on their own ----
  relocateCall,    \* the arguments of the first relocatedError call
  relocated,       \* what that call returned
  relocatedAgain,  \* what relocating the returned error in place returned
  combineCall,     \* combineErrors' argument
  combined,        \* what combineErrors returned
  errorsPc,        \* which of the two functions has been called
  \* ---- serializeArgumentValue called on its own ----
  serializeCall,   \* the arguments (type, value) of the current call
  serialized,      \* what the current call returned
  expectedItem,    \* the member of the enclosing call's result this call made
  \* ---- TransformObjectField ----
  objectField,     \* the constructor's options
  fieldConfigs,    \* per (type, field), what the field transformer returned
  fieldNodes,      \* per (type, field), what the field node transformer returned
  \* ---- mocking ----
  mockOptions,     \* preserveResolvers, and whether the field had a resolver
  mockedValue,     \* what the mock resolver of the field resolves to
  resolvedValue,   \* what the field's existing resolver resolves to
  fieldResolve,    \* the resolver addMocksToSchema left on the field
  fieldResult,     \* the outcome of calling the field's resolver
  \* ---- mocked lists ----
  mockListCall,    \* the list field being mocked and the MockList, if any
  mockListResult,  \* what the mock resolver returned for the field
  wrappedFunctionCalls, \* how often the MockList's function has been called
  \* ---- schema building ----
  typeDefsCall,    \* which function is called, and its typeDefinitions argument
  buildOutcome,    \* what the call did: the error thrown, the steps taken, the text
  concatenated,    \* what a call of concatenateTypeDefs returned or threw
  \* ---- the upload link's FormData ----
  hasUnknowableLength, \* the private field of FormData
  formEntries,     \* what the underlying form was given by super.append, in order
  appendCalls,     \* the arguments of every append call so far, in order
  lengthResult     \* what the last getLength / getLengthSync call did

mergeVars == <<result, errors, subschemas, merged, node, parent, fieldName,
               childrenErrors, pc>>

argsVars == <<schemaArgs, originalRequest, transformed, generated>>

chainVars == <<transforms, phase, cursor, schemaTrail, requestTrail, resultTrail>>

errorVars == <<relocateCall, relocated, relocatedAgain, combineCall, combined,
               errorsPc>>

serializeVars == <<serializeCall, serialized, expectedItem>>

objectFieldVars == <<objectField, fieldConfigs, fieldNodes>>

mockVars == <<mockOptions, mockedValue, resolvedValue, fieldResolve, fieldResult>>

mockListVars == <<mockListCall, mockListResult, wrappedFunctionCalls>>

typeDefsVars == <<typeDefsCall, buildOutcome, concatenated>>

formDataVars == <<hasUnknowableLength, formEntries, appendCalls, lengthResult>>

vars == <<mergeVars, argsVars, chainVars, errorVars, serializeVars, objectFieldVars,
          mockVars, mockListVars, typeDefsVars, formDataVars>>

(***************************************************************************)
(* Bounds of the model.                                                    *)
(***************************************************************************)
MaxLen == 2        \* longest array in a raw result
MaxErrors == 2     \* longest error list handed to the first tagging
MaxOperations == 2 \* most operations in a document
MaxChain == 3      \* longest transform chain
MaxCombined == 3   \* longest error list handed to combineErrors
MaxItems == 2      \* longest list value handed to serializeArgumentValue
MaxListLen == 3    \* largest length asked of a MockList
RandomSteps == 4   \* Math.random() returns one of 0/4, 1/4, 2/4, 3/4
MaxTypeDefs == 2   \* longest array of type definitions
MaxAppends == 2    \* most append calls on one FormData

(***************************************************************************)
(* Paths and errors.                                                       *)
(***************************************************************************)
Field(n) == [isIndex |-> FALSE, name |-> n, index |-> 0]
Index(i) == [isIndex |-> TRUE, name |-> "", index |-> i]

\* error.path is either undefined or an array of segments.
NoPath == [defined |-> FALSE, segs |-> <<>>]
Path(s) == [defined |-> TRUE, segs |-> s]

\* Array.prototype.slice(1)
Slice1(s) == IF Len(s) = 0 THEN <<>> ELSE Tail(s)

Undefined == [undefined |-> TRUE]

\* The GraphQLError constructor as the calls below use it: it keeps what it is
\* given; `extensions` falls back to the original error's extensions.
GraphQLError(message, nodes, source, positions, path, originalError, extensions) ==
  [message       |-> message,
   nodes         |-> nodes,
   source        |-> source,
   positions     |-> positions,
   path          |-> path,
   originalError |-> originalError,
   extensions    |-> IF extensions # "undefined" THEN extensions
                     ELSE IF originalError # Undefined THEN originalError.extensions
                     ELSE "undefined"]

\* A relocation that prefers the nodes it is handed over the error's own.
relocatedError_FallbackNodes(originalError, nodes, path) ==
  GraphQLError(originalError.message,
               IF nodes # "undefined" THEN nodes ELSE originalError.nodes,
               originalError.source,
               originalError.positions,
               IF originalError.path.defined /\ ~path.defined
               THEN originalError.path ELSE path,
               IF originalError.path.defined
               THEN originalError.originalError ELSE originalError,
               originalError.extensions)

\* A relocation that takes the new path also when none is given.
relocatedError_AlwaysNewPath(originalError, nodes, path) ==
  GraphQLError(originalError.message,
               IF originalError.path.defined \/ originalError.nodes # "undefined"
               THEN originalError.nodes ELSE nodes,
               originalError.source,
               originalError.positions,
               path,
               IF originalError.path.defined
               THEN originalError.originalError ELSE originalError,
               originalError.extensions)

relocatedError(originalError, nodes, path) ==
  IF originalError.path.defined
  THEN GraphQLError(originalError.message,
                    originalError.nodes,
                    originalError.source,
                    originalError.positions,
                    IF path.defined THEN path ELSE originalError.path,
                    originalError.originalError,
                    originalError.extensions)
  ELSE GraphQLError(originalError.message,
                    IF originalError.nodes # "undefined" THEN originalError.nodes ELSE nodes,
                    originalError.source,
                    originalError.positions,
                    path,
                    originalError,
                    "undefined")

\* A relocation that forgets to drop the leading path segment.
RelocateOneLevel_KeepPath(error) ==
  relocatedError(error, error.nodes, error.path)

\* relocatedError(error, error.nodes, error.path ? error.path.slice(1) : undefined)
RelocateOneLevel(error) ==
  relocatedError(error, error.nodes,
                 IF error.path.defined THEN Path(Slice1(error.path.segs)) ELSE NoPath)

(***************************************************************************)
(* Result values.                                                          *)
(***************************************************************************)
NullValue == [kind |-> "null"]
Scalar(v) == [kind |-> "scalar", value |-> v]
Array(items) == [kind |-> "array", items |-> items]
\* A plain object: no ERROR_SYMBOL, no SUBSCHEMAS_SYMBOL, no MERGED_NULL_SYMBOL.
Object(fields) ==
  [kind |-> "object", fields |-> fields, mergedNull |-> FALSE,
   tagged |-> FALSE, errors |-> <<>>, subschemas |-> <<>>]

NoFields == [n \in {} |-> NullValue]

\* { [MERGED_NULL_SYMBOL]: true }
MergedNullMarker == [Object(NoFields) EXCEPT !.mergedNull = TRUE]

\* The property key JavaScript derives from a path segment used as an index
\* into the plain object byIndex; a missing segment gives the key "undefined".
PropertyKey(segs, pos) ==
  IF Len(segs) < pos THEN "undefined"
  ELSE IF segs[pos].isIndex THEN ToString(segs[pos].index)
  ELSE segs[pos].name

\* errors.forEach(...) of the array branch, from position k on.
RECURSIVE ByIndexFrom(_, _, _)
ByIndexFrom(errs, k, byIndex) ==
  IF k > Len(errs) THEN byIndex
  ELSE LET error == errs[k] IN
    IF ~error.path.defined
    THEN ByIndexFrom(errs, k + 1, byIndex)
    ELSE LET index == PropertyKey(error.path.segs, 2)
             current == IF index \in DOMAIN byIndex THEN byIndex[index] ELSE <<>>
             pushed == Append(current, RelocateOneLevel(error))
         IN ByIndexFrom(errs, k + 1,
                        [key \in DOMAIN byIndex \cup {index} |->
                           IF key = index THEN pushed ELSE byIndex[key]])

ByIndex(errs) == ByIndexFrom(errs, 1, [key \in {} |-> <<>>])

\* A lookup that is off by one position.
ErrorsForIndex_OffByOne(byIndex, i) ==
  IF ToString(i + 1) \in DOMAIN byIndex THEN byIndex[ToString(i + 1)] ELSE <<>>

\* byIndex[index], with the default `errors = []` of an undefined argument.
ErrorsForIndex(byIndex, i) ==
  IF ToString(i) \in DOMAIN byIndex THEN byIndex[ToString(i)] ELSE <<>>

\* The object branch: result[ERROR_SYMBOL] = errors.map(...);
\* result[SUBSCHEMAS_SYMBOL] = subschemas.
TagObject(obj, errs, subs) ==
  [obj EXCEPT !.tagged = TRUE,
              !.errors = [k \in 1..Len(errs) |-> RelocateOneLevel(errs[k])],
              !.subschemas = subs]

RECURSIVE createMergedResult(_, _, _)
createMergedResult(res, errs, subs) ==
  IF res.kind = "null" THEN TagObject(MergedNullMarker, errs, subs)
  ELSE IF res.kind = "scalar" THEN res
  ELSE IF res.kind = "array"
  THEN LET byIndex == ByIndex(errs) IN
       Array([p \in 1..Len(res.items) |->
                createMergedResult(res.items[p], ErrorsForIndex(byIndex, p - 1), subs)])
  ELSE TagObject(res, errs, subs)

\* object && object[ERROR_SYMBOL] is an array
HasErrorArray(object) == object.kind = "object" /\ object.tagged

getSubschemasFromParent(object) ==
  IF object.kind = "object" /\ object.tagged THEN object.subschemas ELSE <<>>

\* A read that does not filter by field name.
getErrorsFromParent_NoFilter(object, name) ==
  IF ~HasErrorArray(object) THEN [isNull |-> TRUE, list |-> <<>>]
  ELSE [isNull |-> FALSE, list |-> object.errors]

\* A read that also returns the errors of the zero-length path.
getErrorsFromParent_EmptyPathToo(object, name) ==
  IF ~HasErrorArray(object) THEN [isNull |-> TRUE, list |-> <<>>]
  ELSE [isNull |-> FALSE,
        list |-> SelectSeq(object.errors,
                   LAMBDA error:
                     \/ ~error.path.defined
                     \/ Len(error.path.segs) = 0
                     \/ error.path.segs[1] = Field(name))]

\* A read that answers an untagged node with the empty list.
getErrorsFromParent_EmptyForUntagged(object, name) ==
  IF ~HasErrorArray(object) THEN [isNull |-> FALSE, list |-> <<>>]
  ELSE [isNull |-> FALSE,
        list |-> SelectSeq(object.errors,
                   LAMBDA error:
                     \/ ~error.path.defined
                     \/ /\ Len(error.path.segs) > 0
                        /\ error.path.segs[1] = Field(name))]

\* The returned value is null (isNull) or the list.
getErrorsFromParent(object, name) ==
  IF ~HasErrorArray(object) THEN [isNull |-> TRUE, list |-> <<>>]
  ELSE [isNull |-> FALSE,
        list |-> SelectSeq(object.errors,
                   LAMBDA error:
                     \/ ~error.path.defined
                     \/ /\ Len(error.path.segs) > 0
                        /\ error.path.segs[1] = Field(name))]

(***************************************************************************)
(* Inputs of the result pipeline.                                          *)
(***************************************************************************)
FieldNames == {"a", "b", "c"}
RootField == "r"

ObjectsOver(names, values) ==
  {Object(f) : f \in UNION {[S -> values] : S \in SUBSET names}}

ArraysOf(values) ==
  {Array(s) : s \in UNION {[1..n -> values] : n \in 0..MaxLen}}

LeafValues == {NullValue, Scalar(1), Object([n \in {"b"} |-> Scalar(1)])}

InnerArrays == ArraysOf({NullValue, Object(NoFields)})

RawResults ==
  LeafValues
    \cup ObjectsOver({"a", "c"}, LeafValues \cup InnerArrays)
    \cup ArraysOf(LeafValues \cup InnerArrays)

\* Paths the executing subschema reports for the delegated root field.
RootPaths ==
  {NoPath}
    \cup {Path(<<Field(RootField)>>)}
    \cup {Path(<<Field(RootField), Field(n)>>) : n \in {"a", "c"}}
    \cup {Path(<<Field(RootField), Field("a"), Field("b")>>)}
    \cup {Path(<<Field(RootField), Index(i)>>) : i \in 0..1}
    \cup {Path(<<Field(RootField), Index(0), Index(1)>>),
          Path(<<Field(RootField), Index(1), Field("b")>>),
          Path(<<Field(RootField), Field("a"), Index(0)>>)}

Messages == <<"e1", "e2", "e3", "e4">>

InputError(k, path) ==
  GraphQLError(Messages[k], "nodes", "undefined", "undefined", path, Undefined, "ext")

ErrorLists ==
  {[k \in DOMAIN ps |-> InputError(k, ps[k])] :
     ps \in UNION {[1..n -> RootPaths] : n \in 0..MaxErrors}}

SubschemaLists == {<<"s1">>, <<"s1", "s2">>}

NotCalled == [kind |-> "not called"]

\* The parts of the state a specification of another part leaves alone.
IdleMerge ==
  /\ result = NullValue
  /\ errors = <<>>
  /\ subschemas = <<>>
  /\ merged = NotCalled
  /\ node = NotCalled
  /\ parent = NotCalled
  /\ fieldName = ""
  /\ childrenErrors = [isNull |-> TRUE, list |-> <<>>]
  /\ pc = "idle"

IdleArgs ==
  /\ schemaArgs = <<>>
  /\ originalRequest = <<>>
  /\ transformed = NotCalled
  /\ generated = <<>>

IdleChain ==
  /\ transforms = <<>>
  /\ phase = "idle"
  /\ cursor = 0
  /\ schemaTrail = <<>>
  /\ requestTrail = <<>>
  /\ resultTrail = <<>>

IdleErrors ==
  /\ relocateCall = NotCalled
  /\ relocated = NotCalled
  /\ relocatedAgain = NotCalled
  /\ combineCall = <<>>
  /\ combined = NotCalled
  /\ errorsPc = "idle"

IdleSerialize ==
  /\ serializeCall = NotCalled
  /\ serialized = NotCalled
  /\ expectedItem = NotCalled

IdleObjectField ==
  /\ objectField = NotCalled
  /\ fieldConfigs = <<>>
  /\ fieldNodes = <<>>

IdleMock ==
  /\ mockOptions = NotCalled
  /\ mockedValue = NotCalled
  /\ resolvedValue = NotCalled
  /\ fieldResolve = "idle"
  /\ fieldResult = NotCalled

IdleMockList ==
  /\ mockListCall = NotCalled
  /\ mockListResult = NotCalled
  /\ wrappedFunctionCalls = 0

IdleTypeDefs ==
  /\ typeDefsCall = NotCalled
  /\ buildOutcome = NotCalled
  /\ concatenated = NotCalled

IdleFormData ==
  /\ hasUnknowableLength = FALSE
  /\ formEntries = <<>>
  /\ appendCalls = <<>>
  /\ lengthResult = NotCalled

MergeInit ==
  /\ result \in RawResults
  /\ errors \in ErrorLists
  /\ subschemas \in SubschemaLists
  /\ merged = NotCalled
  /\ node = NotCalled
  /\ parent = NotCalled
  /\ fieldName = ""
  /\ childrenErrors = [isNull |-> TRUE, list |-> <<>>]
  /\ pc = "start"
  /\ IdleArgs
  /\ IdleChain
  /\ IdleErrors
  /\ IdleSerialize
  /\ IdleObjectField
  /\ IdleMock
  /\ IdleMockList
  /\ IdleTypeDefs
  /\ IdleFormData

\* The executor tags the raw result of the delegated root field.
ResultTag ==
  /\ pc = "start"
  /\ merged' = createMergedResult(result, errors, subschemas)
  /\ node' = merged'
  /\ pc' = "tagged"
  /\ UNCHANGED <<result, errors, subschemas, parent, fieldName, childrenErrors>>

\* A resolver reads the errors of a parent that no delegation has tagged.
ReadUntagged(name) ==
  /\ pc = "start"
  /\ parent' = result
  /\ fieldName' = name
  /\ childrenErrors' = getErrorsFromParent(result, name)
  /\ pc' = "read"
  /\ UNCHANGED <<result, errors, subschemas, merged, node>>

\* A resolver of a child field reads the errors of its parent.
ReadErrors(name) ==
  /\ pc = "tagged"
  /\ parent' = node
  /\ fieldName' = name
  /\ childrenErrors' = getErrorsFromParent(node, name)
  /\ pc' = "read"
  /\ UNCHANGED <<result, errors, subschemas, merged, node>>

\* The resolver tags the child value with the errors it read.
ResolveField ==
  /\ pc = "read"
  /\ ~childrenErrors.isNull
  /\ fieldName \in DOMAIN parent.fields
  /\ result' = parent.fields[fieldName]
  /\ errors' = childrenErrors.list
  /\ subschemas' = getSubschemasFromParent(parent)
  /\ merged' = createMergedResult(result', errors', subschemas')
  /\ node' = merged'
  /\ pc' = "tagged"
  /\ UNCHANGED <<parent, fieldName, childrenErrors>>

\* The engine walks into an element of a list result.
ResolveItem(p) ==
  /\ pc = "tagged"
  /\ node.kind = "array"
  /\ p \in 1..Len(node.items)
  /\ node' = node.items[p]
  /\ UNCHANGED <<result, errors, subschemas, merged, parent, fieldName,
                 childrenErrors, pc>>

MergeStep ==
  \/ ResultTag
  \/ \E name \in FieldNames : ReadUntagged(name)
  \/ \E name \in FieldNames : ReadErrors(name)
  \/ ResolveField
  \/ \E p \in 1..MaxLen : ResolveItem(p)

MergeNext == MergeStep /\ UNCHANGED <<argsVars, chainVars, errorVars, serializeVars, objectFieldVars,
     mockVars, mockListVars, typeDefsVars, formDataVars>>

SpecMerge == MergeInit /\ [][MergeNext]_vars

(***************************************************************************)
(* Properties of the result-tagging utilities.                             *)
(***************************************************************************)
Called == merged # NotCalled

\* The state right after ResolveField: merged is the tagging of
\* parent.fields[fieldName] with the errors read from parent.
Resolved == pc = "tagged" /\ parent # NotCalled

RECURSIVE TaggedNodes(_)
TaggedNodes(v) ==
  IF v.kind = "object" THEN (IF v.tagged THEN {v} ELSE {})
  ELSE IF v.kind = "array"
  THEN UNION {TaggedNodes(v.items[p]) : p \in 1..Len(v.items)}
  ELSE {}

AttachedMessages(v) ==
  UNION {{n.errors[k].message : k \in 1..Len(n.errors)} : n \in TaggedNodes(v)}

\* null, an object, or a nested array of these that holds at least one of them
RECURSIVE IsObjectTree(_)
IsObjectTree(v) ==
  \/ v.kind \in {"null", "object"}
  \/ /\ v.kind = "array"
     /\ Len(v.items) > 0
     /\ \A p \in 1..Len(v.items) : IsObjectTree(v.items[p])

\* C5: createMergedResult never drops an error: for a raw result that is null,
\* an object or a nested array of objects, every input error appears in the
\* error list attached to some node of the tagged result, also an error with
\* no path or with a one-segment path when the result is an array.
C5_NoErrorDropped ==
  (Called /\ IsObjectTree(result)) =>
    \A k \in 1..Len(errors) : errors[k].message \in AttachedMessages(merged)

PathsOf(errs) == [k \in 1..Len(errs) |-> errs[k].path]
MessagesOf(errs) == [k \in 1..Len(errs) |-> errs[k].message]

StartsUnder(error, name) ==
  /\ error.path.defined
  /\ Len(error.path.segs) > 0
  /\ error.path.segs[1] = Field(name)

\* The node {a: {b: X}, c: Y} tagged with one error of path [a, b] and one of
\* path [c].
PartitionScenario(n) ==
  /\ n.kind = "object"
  /\ n.tagged
  /\ DOMAIN n.fields = {"a", "c"}
  /\ n.fields["a"].kind = "object"
  /\ DOMAIN n.fields["a"].fields = {"b"}
  /\ PathsOf(n.errors) = <<Path(<<Field("a"), Field("b")>>), Path(<<Field("c")>>)>>

\* C6: error partition.  In the scenario {a: {b: X}, c: Y} with errors [a, b]
\* and [c], exactly the first error is read for and attached to the a subtree
\* (at path [b]) and exactly the second for the c subtree (at the empty path);
\* and an error whose path does not start with a field is never read for that
\* field nor attached to any node of that field's subtree.
C6_ErrorPartition ==
  /\ (pc = "read" /\ PartitionScenario(parent) /\ fieldName = "a") =>
       childrenErrors.list = <<parent.errors[1]>>
  /\ (pc = "read" /\ PartitionScenario(parent) /\ fieldName = "c") =>
       childrenErrors.list = <<parent.errors[2]>>
  /\ (Resolved /\ PartitionScenario(parent) /\ fieldName = "a") =>
       /\ PathsOf(merged.errors) = <<Path(<<Field("b")>>)>>
       /\ MessagesOf(merged.errors) = <<parent.errors[1].message>>
  /\ (Resolved /\ PartitionScenario(parent) /\ fieldName = "c"
        /\ merged.kind = "object") =>
       /\ PathsOf(merged.errors) = <<Path(<<>>)>>
       /\ MessagesOf(merged.errors) = <<parent.errors[2].message>>
  /\ (pc = "read" /\ ~childrenErrors.isNull) =>
       \A k \in 1..Len(parent.errors) :
         (parent.errors[k].path.defined /\ ~StartsUnder(parent.errors[k], fieldName)) =>
           \A j \in 1..Len(childrenErrors.list) :
             childrenErrors.list[j].message # parent.errors[k].message
  /\ Resolved =>
       \A k \in 1..Len(parent.errors) :
         (parent.errors[k].path.defined /\ ~StartsUnder(parent.errors[k], fieldName)) =>
           parent.errors[k].message \notin AttachedMessages(merged)

\* The a subtree of the scenario has been tagged with exactly the first error.
C6_Witness ==
  /\ Resolved
  /\ PartitionScenario(parent)
  /\ fieldName = "a"
  /\ PathsOf(merged.errors) = <<Path(<<Field("b")>>)>>

PositionIn(errs, error) == CHOOSE k \in 1..Len(errs) : errs[k] = error

\* list holds, in the order of errs, exactly the members of errs that keep(_)
\* accepts (the members of errs are pairwise different).
IsOrderedSubset(list, errs, keep(_)) ==
  /\ \A j \in 1..Len(list) : \E k \in 1..Len(errs) : errs[k] = list[j]
  /\ \A k \in 1..Len(errs) :
       keep(errs[k]) <=> (\E j \in 1..Len(list) : list[j] = errs[k])
  /\ \A i, j \in 1..Len(list) :
       i < j => PositionIn(errs, list[i]) < PositionIn(errs, list[j])

HasEmptyPath(error) ==
  ~error.path.defined \/ Len(error.path.segs) = 0

C8_NullIffUntagged ==
  /\ pc = "read" =>
       (childrenErrors.isNull <=> ~(parent.kind = "object" /\ parent.tagged))
  /\ (pc = "read" /\ Called /\ parent = merged /\ result.kind \in {"null", "object"}) =>
       ~childrenErrors.isNull

\* A node tagged with zero errors was read: an empty list, not null.
C8_Witness ==
  /\ pc = "read"
  /\ Called
  /\ parent = merged
  /\ result.kind = "object"
  /\ errors = <<>>
  /\ ~childrenErrors.isNull
  /\ childrenErrors.list = <<>>

\* An untagged object was read: null.
C8_WitnessUntagged ==
  /\ pc = "read"
  /\ parent.kind = "object"
  /\ ~parent.tagged
  /\ childrenErrors.isNull

\* error relocated by dropping the first n segments of its path
IsRelocationOf(attached, error, n) ==
  /\ attached.message = error.message
  /\ attached.nodes = error.nodes
  /\ attached.extensions = error.extensions
  /\ attached.path.defined = error.path.defined
  /\ attached.path.segs =
       SubSeq(error.path.segs, n + 1, Len(error.path.segs))

\* C9: createMergedResult(null, errors, subschemas) with a non-empty error list
\* returns a marker with MERGED_NULL_SYMBOL = true and no data fields, whose
\* tagged errors are the input errors in the same number and order, each with
\* its leading path segment dropped, and with the given subschemas attached.
C9_NullSentinel ==
  (Called /\ result.kind = "null" /\ Len(errors) > 0) =>
    /\ merged.kind = "object"
    /\ merged.mergedNull
    /\ DOMAIN merged.fields = {}
    /\ merged.tagged
    /\ Len(merged.errors) = Len(errors)
    /\ \A k \in 1..Len(errors) : IsRelocationOf(merged.errors[k], errors[k], 1)
    /\ merged.subschemas = subschemas
    /\ ~getErrorsFromParent(merged, "a").isNull

\* A null result was tagged with two errors, one of them with a longer path.
C9_Witness ==
  /\ Called
  /\ result.kind = "null"
  /\ Len(errors) = 2
  /\ \E k \in 1..2 : errors[k].path.defined /\ Len(errors[k].path.segs) > 1

\* error's path addresses the element reached by the indexes idxs
Addresses(error, idxs) ==
  /\ error.path.defined
  /\ Len(error.path.segs) >= 1 + Len(idxs)
  /\ \A m \in 1..Len(idxs) : error.path.segs[1 + m] = Index(idxs[m])

RECURSIVE ElementTagged(_, _, _)
ElementTagged(out, raw, idxs) ==
  LET mine == SelectSeq(errors, LAMBDA e : Addresses(e, idxs))
      tagged(base) ==
        /\ out.kind = "object"
        /\ out.tagged
        /\ out.fields = base.fields
        /\ out.mergedNull = base.mergedNull
        /\ out.subschemas = subschemas
        /\ Len(out.errors) = Len(mine)
        /\ \A k \in 1..Len(mine) :
             IsRelocationOf(out.errors[k], mine[k], 1 + Len(idxs))
  IN CASE raw.kind = "scalar" -> out = raw
       [] raw.kind = "null" -> tagged(MergedNullMarker)
       [] raw.kind = "object" -> tagged(raw)
       [] raw.kind = "array" ->
            /\ out.kind = "array"
            /\ Len(out.items) = Len(raw.items)
            /\ \A q \in 1..Len(raw.items) :
                 ElementTagged(out.items[q], raw.items[q], Append(idxs, q - 1))

\* C10: for an array result, element i receives, in input order, exactly the
\* input errors whose path addresses index i, relocated relative to the
\* element; elements are tagged recursively (nested arrays by their own index,
\* null elements as markers, scalars unchanged), every object element carries
\* the same subschemas, and an element no error addresses has an empty list.
C10_ArrayRedistribution ==
  (Called /\ result.kind = "array") =>
    /\ merged.kind = "array"
    /\ Len(merged.items) = Len(result.items)
    /\ \A p \in 1..Len(result.items) :
         ElementTagged(merged.items[p], result.items[p], <<p - 1>>)

\* An array of two elements was tagged: the second got an error, the first,
\* addressed by none, got the empty list.
C10_Witness ==
  /\ Called
  /\ result.kind = "array"
  /\ Len(result.items) = 2
  /\ merged.items[1].kind = "object"
  /\ merged.items[1].errors = <<>>
  /\ merged.items[2].kind = "object"
  /\ Len(merged.items[2].errors) = 1
  /\ Len(errors) = 2

(***************************************************************************)
(* AddArgumentsAsVariablesTransform.                                       *)
(*                                                                         *)
(* JavaScript values are records tagged by t (a number by its decimal       *)
(* text); a plain object used as a map whose key order matters (newArgs,   *)
(* variables) is a sequence of [key, value] entries in insertion order.    *)
(***************************************************************************)
JValue(t, text, items, props) ==
  [t |-> t, text |-> text, items |-> items, props |-> props]
JInt(n) == JValue("int", ToString(n), <<>>, <<>>)
JString(str) == JValue("string", str, <<>>, <<>>)
JNull == JValue("null", "", <<>>, <<>>)
JUndefined == JValue("undefined", "", <<>>, <<>>)
JList(items) == JValue("list", "", items, <<>>)
JObject(props) == JValue("object", "", <<>>, props)

\* obj[key] = value on an insertion-ordered object
Put(obj, key, value) ==
  IF \E i \in 1..Len(obj) : obj[i].key = key
  THEN [i \in 1..Len(obj) |->
          IF obj[i].key = key THEN [key |-> key, value |-> value] ELSE obj[i]]
  ELSE Append(obj, [key |-> key, value |-> value])

\* Object.keys(obj).map(k => obj[k])
Values(obj) == [i \in 1..Len(obj) |-> obj[i].value]

\* map[key] = value on a map whose key order is never read
MapPut(map, key, value) ==
  [k \in DOMAIN map \cup {key} |-> IF k = key THEN value ELSE map[k]]

\* { ...a, ...b }
Spread(a, b) ==
  [k \in DOMAIN a \cup DOMAIN b |-> IF k \in DOMAIN b THEN b[k] ELSE a[k]]

EmptyMap == [k \in {} |-> JNull]

\* ---- the GraphQL input types of the target schema ----
ScalarType(name) == [kind |-> "Scalar", name |-> name]
EnumType(name) == [kind |-> "Enum", name |-> name]
InputObjectType(name) == [kind |-> "InputObject", name |-> name]
ListOf(type) == [kind |-> "List", ofType |-> type]
NonNullOf(type) == [kind |-> "NonNull", ofType |-> type]

\* enum Color, whose values carry internal values of their own
EnumValues(name) ==
  IF name = "Color"
  THEN <<[name |-> "RED", value |-> JInt(5)], [name |-> "GREEN", value |-> JInt(6)]>>
  ELSE <<>>

\* input Filter { min: Int, color: Color }
InputFields(name) ==
  IF name = "Filter"
  THEN [min |-> ScalarType("Int"), color |-> EnumType("Color")]
  ELSE [k \in {} |-> ScalarType("Int")]

Argument(name, type) == [name |-> name, type |-> type]

\* type.getFields(): field name -> field.args, per root type
\*   type Query    { items(limit: Int, color: Color!, ids: [Color!]): X
\*                   plain: X }
\*   type Mutation { items(limit: Color, filter: Filter): X }
RootFields(typeName) ==
  IF typeName = "Query"
  THEN [items |-> <<Argument("limit", ScalarType("Int")),
                    Argument("color", NonNullOf(EnumType("Color"))),
                    Argument("ids", ListOf(NonNullOf(EnumType("Color"))))>>,
        plain |-> <<>>]
  ELSE [items |-> <<Argument("limit", EnumType("Color")),
                    Argument("filter", InputObjectType("Filter"))>>]

\* targetSchema.getSubscriptionType() / getMutationType() / getQueryType()
RootTypeOf(operation) ==
  IF operation.operation = "subscription" THEN "Subscription"
  ELSE IF operation.operation = "mutation" THEN "Mutation"
  ELSE "Query"

\* ---- AST nodes ----
Variable(name) == [kind |-> "Variable", name |-> name]
IntValue(text) == [kind |-> "IntValue", value |-> text]
ArgumentNode(name, value) == [kind |-> "Argument", name |-> name, value |-> value]
VariableDefinition(name, type) ==
  [kind |-> "VariableDefinition", variable |-> Variable(name), type |-> type]
NamedTypeNode(name) == [kind |-> "NamedType", name |-> name]
FieldNode(name, arguments) == [kind |-> "Field", name |-> name, arguments |-> arguments]
FragmentSpread(name) == [kind |-> "FragmentSpread", name |-> name]
OperationDefinition(operation, variableDefinitions, selections) ==
  [kind |-> "OperationDefinition", operation |-> operation,
   variableDefinitions |-> variableDefinitions,
   selectionSet |-> [kind |-> "SelectionSet", selections |-> selections]]
FragmentDefinition(name) == [kind |-> "FragmentDefinition", name |-> name]

RECURSIVE typeToAst(_)
typeToAst(type) ==
  IF type.kind = "NonNull"
  THEN LET innerType == typeToAst(type.ofType) IN
       IF innerType.kind \in {"ListType", "NamedType"}
       THEN [kind |-> "NonNullType", type |-> innerType]
       ELSE [kind |-> "Error", message |-> "Incorrent inner non-null type"]
  ELSE IF type.kind = "List"
  THEN [kind |-> "ListType", type |-> typeToAst(type.ofType)]
  ELSE NamedTypeNode(type.name)

\* A getNullableType that leaves the non-null wrapper on.
getNullableType_Keep(type) == type

getNullableType(type) == IF type.kind = "NonNull" THEN type.ofType ELSE type

\* GraphQLEnumType.serialize: the name of the value whose internal value is
\* the given one, undefined when there is none.
EnumSerialize(name, value) ==
  LET values == EnumValues(name)
      hits == {i \in 1..Len(values) : values[i].value = value}
  IN IF hits = {} THEN JUndefined
     ELSE JString(values[CHOOSE i \in hits : TRUE].name)

RECURSIVE serializeArgumentValue(_, _)
serializeArgumentValue(type, value) ==
  IF value.t \in {"null", "undefined"} THEN JNull
  ELSE LET nullableType == getNullableType(type) IN
    IF nullableType.kind = "Enum" THEN EnumSerialize(nullableType.name, value)
    ELSE IF nullableType.kind = "Scalar" THEN value
    ELSE IF nullableType.kind = "List"
    THEN JList([i \in 1..Len(value.items) |->
                  serializeArgumentValue(nullableType.ofType, value.items[i])])
    ELSE IF nullableType.kind = "InputObject"
    THEN LET fields == InputFields(nullableType.name) IN
         JObject([k \in DOMAIN value.props |->
                    serializeArgumentValue(fields[k], value.props[k])])
    ELSE JUndefined

\* A generator that does not look at the existing variables.
generateVariableName_NoRetry(argName, variableCounter, existingVariables) ==
  [varName |-> "_v" \o ToString(variableCounter) \o "_" \o argName,
   variableCounter |-> variableCounter + 1]

\* The do-while loop of generateVariableName: the name and the counter after.
RECURSIVE generateVariableName(_, _, _)
generateVariableName(argName, variableCounter, existingVariables) ==
  LET varName == "_v" \o ToString(variableCounter) \o "_" \o argName IN
  IF \E i \in 1..Len(existingVariables) : existingVariables[i] = varName
  THEN generateVariableName(argName, variableCounter + 1, existingVariables)
  ELSE [varName |-> varName, variableCounter |-> variableCounter + 1]

\* The body of field.args.forEach: st holds the closure's mutable variables.
InjectArgument(argument, args, st) ==
  IF argument.name \notin DOMAIN args THEN st
  ELSE LET g == generateVariableName(argument.name, st.variableCounter,
                                     st.existingVariables)
           variableName == g.varName
       IN [st EXCEPT
             !.variableCounter = g.variableCounter,
             !.variableNames = MapPut(@, argument.name, variableName),
             !.newArgs = Put(@, argument.name,
                             ArgumentNode(argument.name, Variable(variableName))),
             !.existingVariables = Append(@, variableName),
             !.variables = Put(@, variableName,
                               VariableDefinition(variableName, typeToAst(argument.type))),
             !.newVariables = MapPut(@, variableName,
                                     serializeArgumentValue(argument.type,
                                                            args[argument.name])),
             !.generated = Append(@, variableName)]

RECURSIVE InjectArgumentsFrom(_, _, _, _)
InjectArgumentsFrom(fieldArgs, k, args, st) ==
  IF k > Len(fieldArgs) THEN st
  ELSE InjectArgumentsFrom(fieldArgs, k + 1, args, InjectArgument(fieldArgs[k], args, st))

\* A rewrite that starts from no arguments instead of the selection's own.
ExistingArgsFrom_Dropped(arguments, k, newArgs) == newArgs

\* selection.arguments.forEach(argument => newArgs[argument.name.value] = argument)
RECURSIVE ExistingArgsFrom(_, _, _)
ExistingArgsFrom(arguments, k, newArgs) ==
  IF k > Len(arguments) THEN newArgs
  ELSE ExistingArgsFrom(arguments, k + 1, Put(newArgs, arguments[k].name, arguments[k]))

\* The body of operation.selectionSet.selections.forEach.
RewriteSelection(selection, typeName, args, st) ==
  IF selection.kind = "Field"
  THEN LET field == RootFields(typeName)[selection.name]
           st1 == InjectArgumentsFrom(field, 1, args,
                    [st EXCEPT !.newArgs = ExistingArgsFrom(selection.arguments, 1, <<>>)])
       IN [st1 EXCEPT !.newSelectionSet =
             Append(@, [selection EXCEPT !.arguments = Values(st1.newArgs)])]
  ELSE [st EXCEPT !.newSelectionSet = Append(@, selection)]

RECURSIVE RewriteSelectionsFrom(_, _, _, _, _)
RewriteSelectionsFrom(selections, k, typeName, args, st) ==
  IF k > Len(selections) THEN st
  ELSE RewriteSelectionsFrom(selections, k + 1, typeName, args,
                             RewriteSelection(selections[k], typeName, args, st))

\* A rewrite that returns only the new variable definitions.
ConcatVariableDefinitions_NewOnly(operation, variables) == Values(variables)

\* operation.variableDefinitions.concat(Object.keys(variables).map(...))
ConcatVariableDefinitions(operation, variables) ==
  operation.variableDefinitions \o Values(variables)

\* The callback of operations.map: shared holds variableNames and
\* newVariables, which outlive the operation.
RewriteOperation(operation, args, shared) ==
  LET st0 == [existingVariables |->
                [i \in 1..Len(operation.variableDefinitions) |->
                   operation.variableDefinitions[i].variable.name],
              variableCounter |-> 0,
              variables |-> <<>>,
              newArgs |-> <<>>,
              newSelectionSet |-> <<>>,
              variableNames |-> shared.variableNames,
              newVariables |-> shared.newVariables,
              generated |-> <<>>]
      st == RewriteSelectionsFrom(operation.selectionSet.selections, 1,
                                  RootTypeOf(operation), args, st0)
  IN [operation |->
        [operation EXCEPT
           !.variableDefinitions = ConcatVariableDefinitions(operation, st.variables),
           !.selectionSet = [kind |-> "SelectionSet", selections |-> st.newSelectionSet]],
      variableNames |-> st.variableNames,
      newVariables |-> st.newVariables,
      generated |-> st.generated]

RECURSIVE RewriteOperationsFrom(_, _, _, _)
RewriteOperationsFrom(operations, k, args, acc) ==
  IF k > Len(operations) THEN acc
  ELSE LET r == RewriteOperation(operations[k], args, acc) IN
       RewriteOperationsFrom(operations, k + 1, args,
         [newOperations |-> Append(acc.newOperations, r.operation),
          variableNames |-> r.variableNames,
          newVariables |-> r.newVariables,
          generated |-> Append(acc.generated, r.generated)])

OperationsOf(document) ==
  SelectSeq(document.definitions, LAMBDA def : def.kind = "OperationDefinition")

FragmentsOf(document) ==
  SelectSeq(document.definitions, LAMBDA def : def.kind = "FragmentDefinition")

\* type.getFields()[name] is undefined and field.args throws a TypeError.
FieldLookupThrows(document) ==
  \E o \in 1..Len(OperationsOf(document)) :
    LET operation == OperationsOf(document)[o] IN
    \E k \in 1..Len(operation.selectionSet.selections) :
      LET selection == operation.selectionSet.selections[k] IN
      /\ selection.kind = "Field"
      /\ selection.name \notin DOMAIN RootFields(RootTypeOf(operation))

addVariablesToRootField(document, args) ==
  LET r == RewriteOperationsFrom(OperationsOf(document), 1, args,
             [newOperations |-> <<>>, variableNames |-> EmptyMap,
              newVariables |-> EmptyMap, generated |-> <<>>])
  IN [document |-> [document EXCEPT !.definitions = r.newOperations \o FragmentsOf(document)],
      newVariables |-> r.newVariables,
      generated |-> r.generated]

Threw == [threw |-> TRUE]

transformRequest(request, args) ==
  IF FieldLookupThrows(request.document) THEN Threw
  ELSE LET r == addVariablesToRootField(request.document, args) IN
       [threw |-> FALSE,
        document |-> r.document,
        variables |-> Spread(request.variables, r.newVariables)]

\* A rewrite that pushes the new variable definitions onto the operation's
\* own variableDefinitions array instead of concatenating into a new one.
RequestAfterTransform_PushInPlace(request, args) ==
  IF FieldLookupThrows(request.document) THEN request
  ELSE LET after == addVariablesToRootField(request.document, args).document IN
       [request EXCEPT !.document.definitions =
          [i \in 1..Len(request.document.definitions) |->
             LET def == request.document.definitions[i] IN
             IF def.kind # "OperationDefinition" THEN def
             ELSE LET o == Cardinality({j \in 1..i :
                             request.document.definitions[j].kind = "OperationDefinition"})
                  IN [def EXCEPT !.variableDefinitions =
                        OperationsOf(after)[o].variableDefinitions]]]

\* The request object the caller handed in, as it is after the call.  Every
\* assignment and push of transformRequest and addVariablesToRootField goes to
\* an object the call itself created (variableNames, newVariables, the mapped
\* existingVariables, variables, newArgs, newSelectionSet); selections,
\* operations and the document are spread into new objects and
\* variableDefinitions is concatenated into a new array.
RequestAfterTransform(request, args) == request

(***************************************************************************)
(* Inputs of the request transform.                                        *)
(***************************************************************************)
ArgsMaps ==
  {EmptyMap,
   [limit |-> JInt(5)],
   [limit |-> JInt(5), color |-> JInt(6)],
   [ids |-> JList(<<JInt(5), JInt(6)>>), filter |-> JObject([min |-> JInt(1)])]}

ExistingVariableDefinitions ==
  {<<>>,
   <<VariableDefinition("_v0_limit", NamedTypeNode("Int"))>>,
   <<VariableDefinition("_v1_limit", NamedTypeNode("Int")),
     VariableDefinition("_v0_limit", NamedTypeNode("Int"))>>}

SelectionLists ==
  {<<FieldNode("items", <<>>)>>,
   <<FieldNode("items", <<ArgumentNode("limit", IntValue("3")),
                          ArgumentNode("offset", Variable("_v0_limit"))>>)>>,
   <<FieldNode("items", <<>>), FieldNode("items", <<>>)>>,
   <<FieldNode("plain", <<>>), FieldNode("items", <<>>)>>,
   <<FragmentSpread("F"), FieldNode("items", <<ArgumentNode("offset", IntValue("1"))>>)>>}

Operations ==
  {OperationDefinition(kind, defs, sels) :
     kind \in {"query", "mutation"},
     defs \in ExistingVariableDefinitions,
     sels \in SelectionLists}

Documents ==
  {[kind |-> "Document", definitions |-> frag \o ops] :
     frag \in {<<>>, <<FragmentDefinition("F")>>},
     ops \in UNION {[1..n -> Operations] : n \in 1..MaxOperations}}

RequestVariables == {EmptyMap, [_v0_limit |-> JInt(9), x |-> JInt(1)]}

ArgsInit ==
  /\ schemaArgs \in ArgsMaps
  /\ originalRequest \in
       {[document |-> d, variables |-> v] : d \in Documents, v \in RequestVariables}
  /\ transformed = NotCalled
  /\ generated = <<>>
  /\ IdleMerge
  /\ IdleChain
  /\ IdleErrors
  /\ IdleSerialize
  /\ IdleObjectField
  /\ IdleMock
  /\ IdleMockList
  /\ IdleTypeDefs
  /\ IdleFormData

\* AddArgumentsAsVariablesTransform.transformRequest(originalRequest)
TransformRequest ==
  /\ transformed = NotCalled
  /\ transformed' = transformRequest(originalRequest, schemaArgs)
  /\ generated' = IF FieldLookupThrows(originalRequest.document) THEN <<>>
                  ELSE addVariablesToRootField(originalRequest.document, schemaArgs).generated
  /\ originalRequest' = RequestAfterTransform(originalRequest, schemaArgs)
  /\ UNCHANGED schemaArgs

ArgsNext == TransformRequest /\ UNCHANGED <<mergeVars, chainVars, errorVars, serializeVars, objectFieldVars,
     mockVars, mockListVars, typeDefsVars, formDataVars>>

SpecArgs == ArgsInit /\ [][ArgsNext]_vars

(***************************************************************************)
(* Properties of the request transform.                                    *)
(***************************************************************************)
Returned == transformed # NotCalled /\ ~transformed.threw

SeqToSet(seq) == {seq[i] : i \in 1..Len(seq)}

DeclaredNames(operation) ==
  [i \in 1..Len(operation.variableDefinitions) |->
     operation.variableDefinitions[i].variable.name]

\* The (selection position, schema argument) pairs at which the transform
\* injects an argument into the operation.
Injections(operation) ==
  LET sels == operation.selectionSet.selections
      declaredArgs(k) == RootFields(RootTypeOf(operation))[sels[k].name]
  IN UNION {{<<k, a>> : a \in {a \in 1..Len(declaredArgs(k)) :
                                declaredArgs(k)[a].name \in DOMAIN schemaArgs}} :
            k \in {k \in 1..Len(sels) : sels[k].kind = "Field"}}

\* C2: in every operation the names generateVariableName produced, one per
\* injected argument, are pairwise distinct and differ from every variable
\* name the operation already declared, also when one of those is named like
\* _v0_<argName>.
C2_UniqueVariableNames ==
  Returned =>
    \A o \in 1..Len(generated) :
      LET names == generated[o]
          operation == OperationsOf(originalRequest.document)[o]
      IN /\ Len(names) = Cardinality(Injections(operation))
         /\ \A i, j \in 1..Len(names) : i # j => names[i] # names[j]
         /\ \A i \in 1..Len(names) : names[i] \notin SeqToSet(DeclaredNames(operation))

\* An operation that already declares _v0_limit and _v1_limit got two names.
C2_Witness ==
  /\ Returned
  /\ \E o \in 1..Len(generated) :
       /\ Len(generated[o]) >= 2
       /\ {"_v0_limit", "_v1_limit"} \subseteq
            SeqToSet(DeclaredNames(OperationsOf(originalRequest.document)[o]))
       /\ "_v2_limit" \in SeqToSet(generated[o])

ArgumentsNamed(selection, name) ==
  {i \in 1..Len(selection.arguments) : selection.arguments[i].name = name}

\* C3: argument round trip.  For every injected argument the selection carries
\* exactly one argument of that name, its value is a variable reference, and
\* the returned variables map binds that variable to the serialization of
\* args[argName] for the field's declared argument type; for {limit: 5} and
\* items(limit: Int) the bound value is 5.
C3_ArgumentRoundTrip ==
  Returned =>
    \A o \in 1..Len(OperationsOf(transformed.document)) :
      LET operation == OperationsOf(transformed.document)[o] IN
      \A inj \in Injections(operation) :
        LET selection == operation.selectionSet.selections[inj[1]]
            argument == RootFields(RootTypeOf(operation))[selection.name][inj[2]]
            at == ArgumentsNamed(selection, argument.name)
        IN /\ Cardinality(at) = 1
           /\ \A i \in at :
                /\ selection.arguments[i].value.kind = "Variable"
                /\ selection.arguments[i].value.name \in DOMAIN transformed.variables
                /\ transformed.variables[selection.arguments[i].value.name] =
                     serializeArgumentValue(argument.type, schemaArgs[argument.name])

\* C4: every variable that an injected argument of an operation references is
\* declared exactly once in that operation's variableDefinitions, which are the
\* original definitions followed by the new ones, and has an entry in the
\* returned variables map.
C4_VariablesDeclared ==
  Returned =>
    \A o \in 1..Len(OperationsOf(transformed.document)) :
      LET operation == OperationsOf(transformed.document)[o]
          original == OperationsOf(originalRequest.document)[o]
          n == Len(original.variableDefinitions)
          declared == DeclaredNames(operation)
      IN /\ Len(declared) = n + Len(generated[o])
         /\ SubSeq(operation.variableDefinitions, 1, n) = original.variableDefinitions
         /\ SubSeq(declared, n + 1, Len(declared)) = generated[o]
         /\ \A inj \in Injections(operation) :
              LET selection == operation.selectionSet.selections[inj[1]]
                  argument == RootFields(RootTypeOf(operation))[selection.name][inj[2]]
              IN \A i \in ArgumentsNamed(selection, argument.name) :
                   LET v == selection.arguments[i].value IN
                   /\ v.kind = "Variable"
                   /\ Cardinality({d \in 1..Len(declared) : declared[d] = v.name}) = 1
                   /\ v.name \in DOMAIN transformed.variables

\* An operation with two original definitions got two injected arguments.
C4_Witness ==
  /\ Returned
  /\ \E o \in 1..Len(OperationsOf(transformed.document)) :
       /\ Len(OperationsOf(originalRequest.document)[o].variableDefinitions) = 2
       /\ Len(generated[o]) = 2
       /\ Cardinality(Injections(OperationsOf(transformed.document)[o])) = 2

InjectedNames(operation, selection) ==
  LET declaredArgs == RootFields(RootTypeOf(operation))[selection.name] IN
  {declaredArgs[a].name : a \in {a \in 1..Len(declaredArgs) :
                                   declaredArgs[a].name \in DOMAIN schemaArgs}}

ArgumentsOutside(selection, names) ==
  SelectSeq(selection.arguments, LAMBDA argument : argument.name \notin names)

TransformObjectFieldMethods_WithResult ==
  {"transformSchema", "transformRequest", "transformResult"}

\* class TransformObjectField: transformSchema and transformRequest
TransformObjectFieldMethods == {"transformSchema", "transformRequest"}

\* class AddArgumentsAsVariablesTransform: transformRequest only
AddArgumentsAsVariablesMethods == {"transformRequest"}

\* A transform that marks whatever passes through any of the three methods.
MarkerMethods == {"transformSchema", "transformRequest", "transformResult"}

\* A transform of the result only.
ResultOnlyMethods == {"transformResult"}

TransformKinds ==
  {"Marker", "TransformObjectField", "AddArgumentsAsVariablesTransform", "ResultOnly"}

Methods(kind) ==
  CASE kind = "TransformObjectField" -> TransformObjectFieldMethods
    [] kind = "AddArgumentsAsVariablesTransform" -> AddArgumentsAsVariablesMethods
    [] kind = "Marker" -> MarkerMethods
    [] kind = "ResultOnly" -> ResultOnlyMethods

\* One step of a reduction: the transform at position i acts on the value if
\* it has the method, and passes it through if not.
Apply(trail, i, method) ==
  IF method \in Methods(transforms[i]) THEN Append(trail, i) ELSE trail

ChainInit ==
  /\ transforms \in UNION {[1..n -> TransformKinds] : n \in 0..MaxChain}
  /\ phase = "Start"
  /\ cursor = 0
  /\ schemaTrail = <<>>
  /\ requestTrail = <<>>
  /\ resultTrail = <<>>
  /\ IdleMerge
  /\ IdleArgs
  /\ IdleErrors
  /\ IdleSerialize
  /\ IdleObjectField
  /\ IdleMock
  /\ IdleMockList
  /\ IdleTypeDefs
  /\ IdleFormData

Begin ==
  /\ phase = "Start"
  /\ phase' = "SchemaPrepare"
  /\ cursor' = 1
  /\ UNCHANGED <<transforms, schemaTrail, requestTrail, resultTrail>>

\* reduce, left to right, over transformSchema
SchemaPrepareStep ==
  /\ phase = "SchemaPrepare"
  /\ cursor <= Len(transforms)
  /\ schemaTrail' = Apply(schemaTrail, cursor, "transformSchema")
  /\ cursor' = cursor + 1
  /\ UNCHANGED <<transforms, phase, requestTrail, resultTrail>>

SchemaPrepared ==
  /\ phase = "SchemaPrepare"
  /\ cursor > Len(transforms)
  /\ phase' = "RequestBuild"
  /\ cursor' = 1
  /\ UNCHANGED <<transforms, schemaTrail, requestTrail, resultTrail>>

\* reduce, left to right, over transformRequest
RequestBuildStep ==
  /\ phase = "RequestBuild"
  /\ cursor <= Len(transforms)
  /\ requestTrail' = Apply(requestTrail, cursor, "transformRequest")
  /\ cursor' = cursor + 1
  /\ UNCHANGED <<transforms, phase, schemaTrail, resultTrail>>

\* transformRequest of AddArgumentsAsVariablesTransform throws (a selected
\* root field the schema does not have); the chain does not catch.
RequestBuildThrows ==
  /\ phase = "RequestBuild"
  /\ cursor <= Len(transforms)
  /\ transforms[cursor] = "AddArgumentsAsVariablesTransform"
  /\ phase' = "Failed"
  /\ UNCHANGED <<transforms, cursor, schemaTrail, requestTrail, resultTrail>>

\* The request is built; the engine executes it and the result is tagged.
Execute ==
  /\ phase = "RequestBuild"
  /\ cursor > Len(transforms)
  /\ phase' = "ResultTransform"
  /\ cursor' = Len(transforms)
  /\ UNCHANGED <<transforms, schemaTrail, requestTrail, resultTrail>>

\* reduceRight over transformResult
ResultTransformStep ==
  /\ phase = "ResultTransform"
  /\ cursor >= 1
  /\ resultTrail' = Apply(resultTrail, cursor, "transformResult")
  /\ cursor' = cursor - 1
  /\ UNCHANGED <<transforms, phase, schemaTrail, requestTrail>>

Finish ==
  /\ phase = "ResultTransform"
  /\ cursor = 0
  /\ phase' = "Done"
  /\ UNCHANGED <<transforms, cursor, schemaTrail, requestTrail, resultTrail>>

ChainStep ==
  \/ Begin
  \/ SchemaPrepareStep
  \/ SchemaPrepared
  \/ RequestBuildStep
  \/ RequestBuildThrows
  \/ Execute
  \/ ResultTransformStep
  \/ Finish

ChainNext == ChainStep /\ UNCHANGED <<mergeVars, argsVars, errorVars, serializeVars, objectFieldVars,
     mockVars, mockListVars, typeDefsVars, formDataVars>>

SpecChain == ChainInit /\ [][ChainNext]_vars

(***************************************************************************)
(* Properties of the transform chain.                                      *)
(***************************************************************************)
Having(method) == {i \in 1..Len(transforms) : method \in Methods(transforms[i])}

Increasing(trail) == \A i, j \in 1..Len(trail) : i < j => trail[i] < trail[j]
Decreasing(trail) == \A i, j \in 1..Len(trail) : i < j => trail[i] > trail[j]

\* C1: for a chain [A, B] the combined transformRequest applies A before B and
\* the combined transformResult applies B before A; a transform that lacks a
\* method (TransformObjectField has no transformResult) acts as the identity
\* for it and leaves the order of the others as it is.
C1_ChainOrder ==
  /\ Increasing(requestTrail)
  /\ Decreasing(resultTrail)
  /\ SeqToSet(requestTrail) \subseteq Having("transformRequest")
  /\ SeqToSet(resultTrail) \subseteq Having("transformResult")
  /\ \A i \in SeqToSet(resultTrail) : transforms[i] # "TransformObjectField"
  /\ \A i \in SeqToSet(requestTrail) : transforms[i] # "ResultOnly"
  /\ phase \in {"ResultTransform", "Done"} =>
       SeqToSet(requestTrail) = Having("transformRequest")
  /\ phase = "Done" =>
       SeqToSet(resultTrail) = Having("transformResult")
  /\ (phase = "Done" /\ transforms = <<"Marker", "Marker">>) =>
       /\ requestTrail = <<1, 2>>
       /\ resultTrail = <<2, 1>>

\* A delegation through [Marker, TransformObjectField, Marker] is done: the
\* request saw 1, 2, 3 and the result saw 3, 1.
C1_Witness ==
  /\ phase = "Done"
  /\ transforms = <<"Marker", "TransformObjectField", "Marker">>
  /\ requestTrail = <<1, 2, 3>>
  /\ resultTrail = <<3, 1>>

(***************************************************************************)
(* relocatedError and combineErrors, called on their own.                  *)
(***************************************************************************)
\* class CombinedError extends Error
CombinedError(message, errs) == [message |-> message, errors |-> errs]

\* errors.map(error => error.message).join('\n'), from position k on with the
\* text joined so far
RECURSIVE JoinMessagesFrom(_, _, _)
JoinMessagesFrom(errs, k, joined) ==
  IF k > Len(errs) THEN joined
  ELSE JoinMessagesFrom(errs, k + 1,
         IF k = 1 THEN errs[k].message ELSE joined \o "\n" \o errs[k].message)

\* A combination that reports the first error only.
combineErrors_FirstOnly(errs) ==
  GraphQLError(errs[1].message, errs[1].nodes, errs[1].source, errs[1].positions,
               errs[1].path, errs[1].originalError, errs[1].extensions)

combineErrors(errs) ==
  IF Len(errs) = 1
  THEN GraphQLError(errs[1].message, errs[1].nodes, errs[1].source, errs[1].positions,
                    errs[1].path, errs[1].originalError, errs[1].extensions)
  ELSE CombinedError(JoinMessagesFrom(errs, 1, ""), errs)

\* ---- inputs ----
\* An Error that is not a GraphQLError, thrown by a resolver.
PlainError ==
  [message |-> "boom", nodes |-> "undefined", source |-> "undefined",
   positions |-> "undefined", path |-> NoPath, originalError |-> Undefined,
   extensions |-> "code"]

RelocationPaths ==
  {NoPath, Path(<<>>), Path(<<Field("a")>>), Path(<<Field("a"), Index(0)>>)}

\* Errors as the GraphQLError constructor makes them.
ErrorInputs ==
  {GraphQLError("e1", n, s, p, path, o, x) :
     n \in {"undefined", "n1"}, s \in {"undefined", "s1"},
     p \in {"undefined", "p1"}, path \in RelocationPaths,
     o \in {Undefined, PlainError}, x \in {"undefined", "ext"}}

CombinedInput(k, path, x) ==
  GraphQLError(Messages[k], "n1", "undefined", "undefined", path, Undefined, x)

CombinedInputs ==
  {[k \in DOMAIN c |-> CombinedInput(k, c[k][1], c[k][2])] :
     c \in UNION {[1..n -> {NoPath, Path(<<>>), Path(<<Field("a")>>)}
                             \X {"undefined", "ext"}] : n \in 1..MaxCombined}}

ErrorsInit ==
  /\ \/ /\ errorsPc = "relocate"
        /\ relocateCall \in
             {[originalError |-> e, nodes |-> n, path |-> path] :
                e \in ErrorInputs, n \in {"undefined", "n1", "n2"},
                path \in RelocationPaths}
        /\ combineCall = <<>>
     \/ /\ errorsPc = "combine"
        /\ relocateCall = NotCalled
        /\ combineCall \in CombinedInputs
  /\ relocated = NotCalled
  /\ relocatedAgain = NotCalled
  /\ combined = NotCalled
  /\ IdleMerge
  /\ IdleArgs
  /\ IdleChain
  /\ IdleSerialize
  /\ IdleObjectField
  /\ IdleMock
  /\ IdleMockList
  /\ IdleTypeDefs
  /\ IdleFormData

\* relocatedError(originalError, nodes, path); it assigns to none of its
\* arguments.
Relocate ==
  /\ errorsPc = "relocate"
  /\ relocated' = relocatedError(relocateCall.originalError, relocateCall.nodes,
                                 relocateCall.path)
  /\ errorsPc' = "relocated"
  /\ UNCHANGED <<relocateCall, relocatedAgain, combineCall, combined>>

\* The same relocation applied to the error the first call returned.
RelocateAgain ==
  /\ errorsPc = "relocated"
  /\ relocatedAgain' = relocatedError(relocated, relocateCall.nodes, relocateCall.path)
  /\ errorsPc' = "relocated again"
  /\ UNCHANGED <<relocateCall, relocated, combineCall, combined>>

\* combineErrors(errors)
CombineErrors ==
  /\ errorsPc = "combine"
  /\ combined' = combineErrors(combineCall)
  /\ errorsPc' = "combined"
  /\ UNCHANGED <<relocateCall, relocated, relocatedAgain, combineCall>>

ErrorsStep ==
  \/ Relocate
  \/ RelocateAgain
  \/ CombineErrors

ErrorsNext == ErrorsStep /\ UNCHANGED <<mergeVars, argsVars, chainVars, serializeVars, objectFieldVars,
     mockVars, mockListVars, typeDefsVars, formDataVars>>

SpecErrors == ErrorsInit /\ [][ErrorsNext]_vars

(***************************************************************************)
(* Properties of relocatedError and combineErrors.                         *)
(***************************************************************************)
HasRelocated == relocated # NotCalled

KeepsDescription(e, r) ==
  /\ r.message = e.message
  /\ r.source = e.source
  /\ r.positions = e.positions
  /\ r.extensions = e.extensions

\* C11 as stated: the returned error has the message, nodes, source, positions
\* and extensions of the original; its path is newPath whenever the original
\* has a path; it has fallbackNodes whenever the original has no nodes.
C11_RelocatedAsStated ==
  HasRelocated =>
    LET e == relocateCall.originalError
        r == relocated
    IN /\ KeepsDescription(e, r)
       /\ e.nodes # "undefined" => r.nodes = e.nodes
       /\ e.path.defined => r.path = relocateCall.path
       /\ e.nodes = "undefined" => r.nodes = relocateCall.nodes

\* C11, amended: relocatedError leaves its input error as it was and returns
\* an error with the original's message, source, positions and extensions.  Its
\* nodes are the original's, except that an original with neither a path nor
\* nodes gets fallbackNodes.  Its path is newPath, except that an original with
\* a path keeps its own path when no newPath is given.
C11_RelocatedAmended ==
  /\ [](HasRelocated =>
          LET e == relocateCall.originalError
              r == relocated
          IN /\ KeepsDescription(e, r)
             /\ r.nodes = IF e.path.defined \/ e.nodes # "undefined"
                          THEN e.nodes ELSE relocateCall.nodes
             /\ r.path = IF e.path.defined /\ ~relocateCall.path.defined
                         THEN e.path ELSE relocateCall.path)
  /\ [][relocateCall' = relocateCall]_vars

\* An error with a path and without nodes was relocated with fallback nodes.
C11_Witness ==
  /\ HasRelocated
  /\ relocateCall.originalError.path = Path(<<Field("a"), Index(0)>>)
  /\ relocateCall.originalError.nodes = "undefined"
  /\ relocateCall.nodes = "n2"
  /\ relocateCall.path = Path(<<Field("a")>>)
  /\ relocated.path = Path(<<Field("a")>>)

\* The relocation has an empty prefix: the new path is the error's own path,
\* or no new path is given.
EmptyPrefix ==
  \/ relocateCall.path = relocateCall.originalError.path
  \/ ~relocateCall.path.defined

SameRelativeError(e, r) ==
  /\ r.message = e.message
  /\ r.extensions = e.extensions
  /\ r.path = e.path

\* C12: relocating an error with an empty prefix (onto its own path, or with
\* no new path) returns an error with the same message, extensions and path,
\* and relocating the returned error once more returns an error with the same
\* message, extensions, path, nodes, source and positions again.
C12_RelocationIdempotent ==
  (HasRelocated /\ EmptyPrefix) =>
    /\ SameRelativeError(relocateCall.originalError, relocated)
    /\ relocatedAgain # NotCalled =>
         /\ SameRelativeError(relocated, relocatedAgain)
         /\ relocatedAgain.nodes = relocated.nodes
         /\ relocatedAgain.source = relocated.source
         /\ relocatedAgain.positions = relocated.positions

\* An error with a path was relocated twice with no new path given.
C12_Witness ==
  /\ relocatedAgain # NotCalled
  /\ ~relocateCall.path.defined
  /\ relocateCall.originalError.path = Path(<<Field("a"), Index(0)>>)
  /\ relocateCall.originalError.extensions = "ext"
  /\ relocatedAgain.path = Path(<<Field("a"), Index(0)>>)

RECURSIVE MessageLines(_, _)
MessageLines(errs, k) ==
  IF k = Len(errs) THEN errs[k].message
  ELSE errs[k].message \o "\n" \o MessageLines(errs, k + 1)

\* C13: combineErrors of one error returns a GraphQLError with that error's
\* message, path and extensions; combineErrors of more than one error returns
\* an aggregate whose message is the members' messages in order, separated by
\* newlines, and whose errors member is the input list.
C13_CombineErrors ==
  combined # NotCalled =>
    /\ Len(combineCall) = 1 =>
         /\ "errors" \notin DOMAIN combined
         /\ combined.message = combineCall[1].message
         /\ combined.path = combineCall[1].path
         /\ combined.extensions = combineCall[1].extensions
    /\ Len(combineCall) > 1 =>
         /\ "errors" \in DOMAIN combined
         /\ combined.message = MessageLines(combineCall, 1)
         /\ combined.errors = combineCall

\* Three errors were combined.
C13_Witness ==
  /\ combined # NotCalled
  /\ Len(combineCall) = 3
  /\ combined.message = "e1\ne2\ne3"
  /\ Len(combined.errors) = 3

(***************************************************************************)
(* serializeArgumentValue, called on its own and followed into its         *)
(* recursive calls.                                                        *)
(***************************************************************************)
SerializedTypes ==
  {ScalarType("Int"),
   EnumType("Color"),
   NonNullOf(EnumType("Color")),
   ListOf(NonNullOf(EnumType("Color"))),
   NonNullOf(ListOf(ScalarType("Int"))),
   InputObjectType("Filter"),
   ListOf(InputObjectType("Filter"))}

\* The values a caller passes for an argument of the type: null or undefined,
\* or a value of the type's shape.
RECURSIVE ValuesOf(_)
ValuesOf(type) ==
  {JNull, JUndefined} \cup
    IF type.kind = "NonNull" THEN ValuesOf(type.ofType)
    ELSE IF type.kind = "Scalar" THEN {JInt(1), JString("x")}
    ELSE IF type.kind = "Enum" THEN {JInt(5), JInt(6), JInt(7)}
    ELSE IF type.kind = "List"
    THEN {JList(items) : items \in UNION {[1..n -> ValuesOf(type.ofType)] : n \in 0..MaxItems}}
    ELSE LET fields == InputFields(type.name) IN
         UNION {{JObject(props) :
                   props \in {f \in [keys -> UNION {ValuesOf(fields[k]) : k \in keys}] :
                                \A k \in keys : f[k] \in ValuesOf(fields[k])}} :
                keys \in SUBSET DOMAIN fields}

SerializeInit ==
  /\ serializeCall \in
       UNION {{[type |-> type, value |-> value] : value \in ValuesOf(type)} :
              type \in SerializedTypes}
  /\ serialized = NotCalled
  /\ expectedItem = NotCalled
  /\ IdleMerge
  /\ IdleArgs
  /\ IdleChain
  /\ IdleErrors
  /\ IdleObjectField
  /\ IdleMock
  /\ IdleMockList
  /\ IdleTypeDefs
  /\ IdleFormData

\* serializeArgumentValue(type, value)
Serialize ==
  /\ serialized = NotCalled
  /\ serialized' = serializeArgumentValue(serializeCall.type, serializeCall.value)
  /\ UNCHANGED <<serializeCall, expectedItem>>

\* The call value.map makes for the element at position i.
SerializeElement(i) ==
  /\ serialized # NotCalled
  /\ serializeCall.value.t = "list"
  /\ getNullableType(serializeCall.type).kind = "List"
  /\ i \in 1..Len(serializeCall.value.items)
  /\ serializeCall' = [type |-> getNullableType(serializeCall.type).ofType,
                       value |-> serializeCall.value.items[i]]
  /\ expectedItem' = serialized.items[i]
  /\ serialized' = NotCalled

\* The call the reduce over Object.keys(value) makes for the key k.
SerializeField(k) ==
  /\ serialized # NotCalled
  /\ serializeCall.value.t = "object"
  /\ getNullableType(serializeCall.type).kind = "InputObject"
  /\ k \in DOMAIN serializeCall.value.props
  /\ serializeCall' = [type |-> InputFields(getNullableType(serializeCall.type).name)[k],
                       value |-> serializeCall.value.props[k]]
  /\ expectedItem' = serialized.props[k]
  /\ serialized' = NotCalled

SerializeStep ==
  \/ Serialize
  \/ \E i \in 1..MaxItems : SerializeElement(i)
  \/ \E k \in {"min", "color"} : SerializeField(k)

SerializeNext == SerializeStep /\ UNCHANGED <<mergeVars, argsVars, chainVars, errorVars, objectFieldVars,
     mockVars, mockListVars, typeDefsVars, formDataVars>>

SpecSerialize == SerializeInit /\ [][SerializeNext]_vars

(***************************************************************************)
(* Properties of serializeArgumentValue.                                   *)
(***************************************************************************)
\* The declared type without its non-null wrapper.
DeclaredNullable(type) == IF type.kind = "NonNull" THEN type.ofType ELSE type

\* C15: serializeArgumentValue follows the nullable form of the declared type:
\* null and undefined give null, a value of a scalar type comes back as it is,
\* a value of an enum type comes back as the enum's serialize makes it, a list
\* gives a list of the same length whose elements are the element calls'
\* results, an input object gives an object with the same keys whose members
\* are the field calls' results; each recursive call's result is the member of
\* the enclosing result at the same position or key.
C15_StructuralSerialization ==
  serialized # NotCalled =>
    LET value == serializeCall.value
        nullableType == DeclaredNullable(serializeCall.type)
    IN /\ value.t \in {"null", "undefined"} => serialized = JNull
       /\ (value.t \notin {"null", "undefined"} /\ nullableType.kind = "Scalar")
            => serialized = value
       /\ (value.t \notin {"null", "undefined"} /\ nullableType.kind = "Enum")
            => serialized = EnumSerialize(nullableType.name, value)
       /\ (value.t = "list" /\ nullableType.kind = "List")
            => /\ serialized.t = "list"
               /\ Len(serialized.items) = Len(value.items)
       /\ (value.t = "object" /\ nullableType.kind = "InputObject")
            => /\ serialized.t = "object"
               /\ DOMAIN serialized.props = DOMAIN value.props
       /\ expectedItem # NotCalled => serialized = expectedItem

\* The colour of the second filter of a list of two was serialized to its
\* name, as the list's result already held it.
C15_Witness ==
  /\ serialized = JString("GREEN")
  /\ expectedItem = JString("GREEN")
  /\ serializeCall = [type |-> EnumType("Color"), value |-> JInt(6)]

\* [5, null] for [Color!] was serialized to ["RED", null].
C15_WitnessList ==
  /\ serializeCall = [type |-> ListOf(NonNullOf(EnumType("Color"))),
                      value |-> JList(<<JInt(5), JNull>>)]
  /\ serialized = JList(<<JString("RED"), JNull>>)

(***************************************************************************)
(* TransformObjectField: the two callbacks its constructor hands to        *)
(* TransformObjectFields, which calls them for the fields of the schema's  *)
(* object types and for the field nodes of a request.                      *)
(***************************************************************************)
\* A test that looks at the field name only.
IsNamedField_FieldNameOnly(options, t, f) == options.fieldName = f

\* typeName === t && fieldName === f
IsNamedField(options, t, f) == options.typeName = t /\ options.fieldName = f

Resolver(name, wrapped) == [name |-> name, wrapped |-> wrapped]

\* What the caller's resolverWrapper returns for a resolver.
resolverWrapper(originalResolver) == [originalResolver EXCEPT !.wrapped = TRUE]

\* What the caller's fieldNodeTransformer returns for a field node.
fieldNodeTransformer(fieldNode) == [fieldNode EXCEPT !.kind = "InlineFragment"]

\* fieldToFieldConfig(field, resolveType, true): the field's config, resolver
\* included.
fieldToFieldConfig(field) == [type |-> field.type, resolve |-> field.resolve]

\* The first callback: (t, f, field) => fieldConfig
TransformField(options, t, f, field) ==
  LET fieldConfig == fieldToFieldConfig(field) IN
  IF IsNamedField(options, t, f) /\ options.resolverWrapper
  THEN [fieldConfig EXCEPT !.resolve = resolverWrapper(fieldConfig.resolve)]
  ELSE fieldConfig

\* The second callback: (t, f, fieldNode) => SelectionNode | Array<SelectionNode>
TransformFieldNode(options, t, f, fieldNode) ==
  IF IsNamedField(options, t, f) /\ options.fieldNodeTransformer
  THEN fieldNodeTransformer(fieldNode)
  ELSE fieldNode

\* ---- inputs ----
\* type Query { user: User, name: String }   type User { id: ID, name: String }
SchemaFields == {<<"Query", "user">>, <<"Query", "name">>,
                 <<"User", "id">>, <<"User", "name">>}

SchemaField(t, f) ==
  [type |-> IF f = "user" THEN "User" ELSE "String",
   resolve |-> Resolver(t \o "." \o f, FALSE)]

ObjectFieldOptions ==
  {[typeName |-> t, fieldName |-> f, resolverWrapper |-> w, fieldNodeTransformer |-> n] :
     t \in {"Query", "User", "Post"}, f \in {"user", "name", "id"},
     w \in BOOLEAN, n \in BOOLEAN}

ObjectFieldInit ==
  /\ objectField \in ObjectFieldOptions
  /\ fieldConfigs = [pair \in SchemaFields |-> NotCalled]
  /\ fieldNodes = [pair \in SchemaFields |-> NotCalled]
  /\ IdleMerge
  /\ IdleArgs
  /\ IdleChain
  /\ IdleErrors
  /\ IdleSerialize
  /\ IdleMock
  /\ IdleMockList
  /\ IdleTypeDefs
  /\ IdleFormData

\* transformSchema reaches the field f of the type t.
TransformSchemaField(t, f) ==
  /\ fieldConfigs[<<t, f>>] = NotCalled
  /\ fieldConfigs' = [fieldConfigs EXCEPT ![<<t, f>>] =
                        TransformField(objectField, t, f, SchemaField(t, f))]
  /\ UNCHANGED <<objectField, fieldNodes>>

\* transformRequest reaches a field node selecting the field f of the type t.
TransformRequestFieldNode(t, f) ==
  /\ fieldNodes[<<t, f>>] = NotCalled
  /\ fieldNodes' = [fieldNodes EXCEPT ![<<t, f>>] =
                      TransformFieldNode(objectField, t, f, FieldNode(f, <<>>))]
  /\ UNCHANGED <<objectField, fieldConfigs>>

ObjectFieldStep ==
  \/ \E pair \in SchemaFields : TransformSchemaField(pair[1], pair[2])
  \/ \E pair \in SchemaFields : TransformRequestFieldNode(pair[1], pair[2])

ObjectFieldNext ==
  ObjectFieldStep
    /\ UNCHANGED <<mergeVars, argsVars, chainVars, errorVars, serializeVars, mockVars, mockListVars, typeDefsVars, formDataVars>>

SpecObjectField == ObjectFieldInit /\ [][ObjectFieldNext]_vars

(***************************************************************************)
(* Properties of TransformObjectField.                                     *)
(***************************************************************************)
NamedPair == <<objectField.typeName, objectField.fieldName>>

\* C16: the resolver of a field is wrapped exactly when the field is the named
\* (typeName, fieldName) pair and a resolverWrapper was supplied, and then
\* nothing but the resolver differs from the original config; a field node is
\* replaced exactly when it selects the named pair and a fieldNodeTransformer
\* was supplied; every other pair gets its original config and node back, and
\* with neither option every config and node is the original.
C16_OnlyNamedField ==
  \A pair \in DOMAIN fieldConfigs :
    LET original == SchemaField(pair[1], pair[2])
        selected == FieldNode(pair[2], <<>>)
    IN /\ fieldConfigs[pair] # NotCalled =>
            IF pair = NamedPair /\ objectField.resolverWrapper
            THEN /\ fieldConfigs[pair].resolve = Resolver(original.resolve.name, TRUE)
                 /\ fieldConfigs[pair].type = original.type
            ELSE fieldConfigs[pair] = [type |-> original.type, resolve |-> original.resolve]
       /\ fieldNodes[pair] # NotCalled =>
            IF pair = NamedPair /\ objectField.fieldNodeTransformer
            THEN fieldNodes[pair] = [selected EXCEPT !.kind = "InlineFragment"]
            ELSE fieldNodes[pair] = selected

\* User.name was wrapped and its node replaced while Query.name and User.id
\* came back as they were.
C16_Witness ==
  /\ objectField # NotCalled
  /\ NamedPair = <<"User", "name">>
  /\ objectField.resolverWrapper
  /\ objectField.fieldNodeTransformer
  /\ \A pair \in DOMAIN fieldConfigs :
       fieldConfigs[pair] # NotCalled /\ fieldNodes[pair] # NotCalled
  /\ fieldConfigs[<<"User", "name">>].resolve.wrapped
  /\ ~fieldConfigs[<<"Query", "name">>].resolve.wrapped
  /\ ~fieldConfigs[<<"User", "id">>].resolve.wrapped
  /\ fieldNodes[<<"User", "name">>].kind = "InlineFragment"
  /\ fieldNodes[<<"Query", "name">>].kind = "Field"

(***************************************************************************)
(* Mocking: the resolver addMocksToSchema leaves on a field.               *)
(*                                                                         *)
(* A JavaScript value is a record tagged by t; an object has its own       *)
(* properties (name -> value, values being texts) and a prototype.         *)
(***************************************************************************)
MValue(t, text, props, proto) == [t |-> t, text |-> text, props |-> props, proto |-> proto]
NoProps == [k \in {} |-> ""]
MUndefined == MValue("undefined", "", NoProps, "null")
MNull == MValue("null", "", NoProps, "null")
MScalar(text) == MValue("scalar", text, NoProps, "null")
MArray(text) == MValue("array", text, NoProps, "Array.prototype")
MError(message) == MValue("object", message, NoProps, "Error.prototype")
MDate(time) == MValue("object", time, NoProps, "Date.prototype")
MObject(props) == MValue("object", "", props, "Object.prototype")

\* Object.getPrototypeOf of a prototype object
PrototypeOf(proto) == IF proto = "Object.prototype" THEN "null" ELSE "Object.prototype"

\* The own properties of the prototype objects (some of them).
PrototypeProps(proto) ==
  IF proto = "Object.prototype"
  THEN [k \in {"constructor", "toString"} |-> "Object.prototype." \o k]
  ELSE IF proto = "Date.prototype"
  THEN [k \in {"constructor", "getTime"} |-> "Date.prototype." \o k]
  ELSE IF proto = "Error.prototype"
  THEN [k \in {"constructor", "message"} |-> "Error.prototype." \o k]
  ELSE [k \in {"constructor"} |-> proto \o "." \o k]

\* value instanceof Error / value instanceof Date
InstanceOf(value, proto) == value.t = "object" /\ value.proto = proto

\* thing === Object(thing) && !Array.isArray(thing)
isObject(thing) == thing.t = "object"

\* Own properties of source are defined on target unless target has them.
copyOwnPropsIfNotPresent(target, source) ==
  [k \in DOMAIN target \cup DOMAIN source |->
     IF k \in DOMAIN target THEN target[k] ELSE source[k]]

\* while (chain != null) { copyOwnPropsIfNotPresent(target, chain); chain = proto }
RECURSIVE CopyChain(_, _, _)
CopyChain(target, props, proto) ==
  LET copied == copyOwnPropsIfNotPresent(target, props) IN
  IF proto = "null" THEN copied
  ELSE CopyChain(copied, PrototypeProps(proto), PrototypeOf(proto))

RECURSIVE CopySourcesFrom(_, _, _)
CopySourcesFrom(target, sources, k) ==
  IF k > Len(sources) THEN target
  ELSE CopySourcesFrom(CopyChain(target, sources[k].props, sources[k].proto),
                       sources, k + 1)

\* copyOwnProps(target, ...sources): the target, which keeps its prototype
copyOwnProps(target, sources) ==
  [target EXCEPT !.props = CopySourcesFrom(target.props, sources, 1)]

Returns(value) == [threw |-> FALSE, value |-> value]
Throws(value) == [threw |-> TRUE, value |-> value]

\* The .then callback of the resolver that wraps an existing resolver.
MergeResolved(mocked, resolved) ==
  IF InstanceOf(mocked, "Error.prototype")
  THEN IF resolved.t = "undefined" THEN Throws(mocked) ELSE Returns(resolved)
  ELSE IF InstanceOf(resolved, "Date.prototype") /\ InstanceOf(mocked, "Date.prototype")
  THEN Returns(resolved)
  ELSE IF isObject(mocked) /\ isObject(resolved)
  THEN LET emptyObject == MValue("object", resolved.text, NoProps, resolved.proto) IN
       Returns(copyOwnProps(emptyObject, <<resolved, mocked>>))
  ELSE Returns(IF resolved.t # "undefined" THEN resolved ELSE mocked)

\* if (!preserveResolvers || !field.resolve) field.resolve = mockResolver
\* else field.resolve = the wrapping resolver
InstalledResolver(options) ==
  IF ~options.preserveResolvers \/ ~options.hasResolve THEN "mockResolver"
  ELSE "wrapper"

\* ---- inputs ----
PropsOver(names, prefix) ==
  UNION {{[k \in keys |-> prefix \o k]} : keys \in SUBSET names}

\* What the mock resolver and the existing resolver of a field of the kind
\* resolve to.
MockedValues(kind) ==
  {MUndefined, MError("No mock defined")} \cup
    IF kind = "scalar" THEN {MScalar("Hello World"), MDate("1")}
    ELSE IF kind = "list" THEN {MArray("mocked")}
    ELSE {MObject(props) : props \in PropsOver({"id", "name", "toString"}, "mock.")}

ResolvedValues(kind) ==
  {MUndefined, MNull} \cup
    IF kind = "scalar" THEN {MScalar("resolved"), MDate("2")}
    ELSE IF kind = "list" THEN {MArray("resolved")}
    ELSE {MObject(props) : props \in PropsOver({"id", "name"}, "resolved.")}

MockInit ==
  /\ mockOptions \in [preserveResolvers : BOOLEAN, hasResolve : BOOLEAN,
                      kind : {"scalar", "list", "object"}]
  /\ mockedValue \in MockedValues(mockOptions.kind)
  /\ resolvedValue \in IF mockOptions.hasResolve THEN ResolvedValues(mockOptions.kind)
                       ELSE {NotCalled}
  /\ fieldResolve = IF mockOptions.hasResolve THEN "oldResolver" ELSE "none"
  /\ fieldResult = NotCalled
  /\ IdleMerge
  /\ IdleArgs
  /\ IdleChain
  /\ IdleErrors
  /\ IdleSerialize
  /\ IdleObjectField
  /\ IdleMockList
  /\ IdleTypeDefs
  /\ IdleFormData

\* addMocksToSchema reaches the field.
AddMocksToSchema ==
  /\ fieldResolve \in {"oldResolver", "none"}
  /\ fieldResolve' = InstalledResolver(mockOptions)
  /\ UNCHANGED <<mockOptions, mockedValue, resolvedValue, fieldResult>>

\* The engine calls field.resolve and waits for what it returns.
CallFieldResolve ==
  /\ fieldResolve \in {"mockResolver", "wrapper"}
  /\ fieldResult = NotCalled
  /\ fieldResult' = IF fieldResolve = "mockResolver" THEN Returns(mockedValue)
                    ELSE MergeResolved(mockedValue, resolvedValue)
  /\ UNCHANGED <<mockOptions, mockedValue, resolvedValue, fieldResolve>>

MockStep ==
  \/ AddMocksToSchema
  \/ CallFieldResolve

MockNext ==
  MockStep
    /\ UNCHANGED <<mergeVars, argsVars, chainVars, errorVars, serializeVars,
                   objectFieldVars, mockListVars, typeDefsVars, formDataVars>>

SpecMock == MockInit /\ [][MockNext]_vars

(***************************************************************************)
(* Properties of mocking.                                                  *)
(***************************************************************************)
IsPlainObject(value) == value.t = "object" /\ value.proto = "Object.prototype"

Preserving == mockOptions.preserveResolvers /\ mockOptions.hasResolve

\* C17: with preserveResolvers and an existing resolver, a resolved value that
\* is not undefined is what the field resolves to (for two plain objects: an
\* object holding every own property of the resolved object with its resolved
\* value and every property of the mock the resolved object lacks with its
\* mock value); an undefined resolved value gives the mock value, or raises
\* the mock's Error when the mock failed, and the Error is raised in no other
\* case.  Without preserveResolvers, or without an existing resolver, the
\* field resolves to what the mock resolver returns.
C17_PreserveResolvers ==
  fieldResult # NotCalled =>
    IF Preserving
    THEN /\ fieldResolve = "wrapper"
         /\ fieldResult.threw <=>
              (InstanceOf(mockedValue, "Error.prototype") /\ resolvedValue.t = "undefined")
         /\ fieldResult.threw => fieldResult.value = mockedValue
         /\ (resolvedValue.t = "undefined" /\ ~fieldResult.threw)
              => fieldResult.value = mockedValue
         /\ resolvedValue.t # "undefined" =>
              IF IsPlainObject(resolvedValue) /\ IsPlainObject(mockedValue)
              THEN /\ \A k \in DOMAIN resolvedValue.props :
                        /\ k \in DOMAIN fieldResult.value.props
                        /\ fieldResult.value.props[k] = resolvedValue.props[k]
                   /\ \A k \in DOMAIN mockedValue.props \ DOMAIN resolvedValue.props :
                        /\ k \in DOMAIN fieldResult.value.props
                        /\ fieldResult.value.props[k] = mockedValue.props[k]
              ELSE fieldResult.value = resolvedValue
    ELSE /\ fieldResolve = "mockResolver"
         /\ fieldResult = Returns(mockedValue)

(***************************************************************************)
(* Mocked lists: MockList.mock and the list branch of mockType.            *)
(***************************************************************************)
ObjectTypeOf(name) == [kind |-> "Object", name |-> name]

MockedLeaf(text) == [t |-> "leaf", text |-> text, items |-> <<>>]
MockedArray(items) == [t |-> "array", text |-> "", items |-> items]

\* defaultMockMap.has(name)
DefaultMocked == {"Int", "Float", "String", "Boolean", "ID"}

\* The resolver mockType(type) returns, called with a root that has no value
\* for the field; mocks holds the names mockFunctionMap has.
RECURSIVE mockType(_, _)
mockType(type, mocks) ==
  LET fieldType == getNullableType(type) IN
  IF fieldType.kind = "List"
  THEN MockedArray(<<mockType(fieldType.ofType, mocks), mockType(fieldType.ofType, mocks)>>)
  ELSE IF fieldType.name \in mocks THEN MockedLeaf("mock " \o fieldType.name)
  ELSE IF fieldType.kind = "Object" THEN MockedLeaf("{}")
  ELSE IF fieldType.name \in DefaultMocked THEN MockedLeaf("default " \o fieldType.name)
  ELSE MockedLeaf("Error: No mock defined for type")

\* A randint whose range is one too wide.
randint_OneTooMany(low, high, k) == ((k * (high - low + 2)) \div RandomSteps) + low

\* Math.floor(Math.random() * (high - low + 1) + low), Math.random() being
\* k / RandomSteps
randint(low, high, k) == ((k * (high - low + 1)) \div RandomSteps) + low

\* new MockList(len, wrappedFunction): len is a number (isArray false, len in
\* low) or a pair; wrapped tells what wrappedFunction is: undefined, a
\* function returning a value, or a function returning new MockList(inner).
MockList(isArray, low, high, wrapped, inner) ==
  [isArray |-> isArray, low |-> low, high |-> high, wrapped |-> wrapped, inner |-> inner]

\* arr[i] of MockList.mock
MockListItem(list, fieldType, mocks) ==
  IF list.wrapped = "undefined" THEN mockType(fieldType.ofType, mocks)
  ELSE IF list.wrapped = "MockList"
  THEN LET nullableType == getNullableType(fieldType.ofType) IN
       MockedArray([j \in 1..list.inner |-> mockType(nullableType.ofType, mocks)])
  ELSE MockedLeaf("wrapped")

\* MockList.mock: the array and the number of calls of wrappedFunction
MockListMock(list, fieldType, mocks, k) ==
  LET length == IF list.isArray THEN randint(list.low, list.high, k) ELSE list.low IN
  [arr |-> MockedArray([i \in 1..length |-> MockListItem(list, fieldType, mocks)]),
   calls |-> IF list.wrapped = "undefined" THEN 0 ELSE length]

\* ---- inputs ----
MockLists ==
  {MockList(FALSE, n, n, w, i) :
     n \in 0..MaxListLen, w \in {"undefined", "value", "MockList"}, i \in 0..1}
    \cup
  {MockList(TRUE, r[1], r[2], w, i) :
     r \in {r \in (0..MaxListLen) \X (0..MaxListLen) : r[1] <= r[2]},
     w \in {"undefined", "value", "MockList"}, i \in 0..1}

MockedListTypes ==
  {ListOf(ScalarType("String")),
   NonNullOf(ListOf(ObjectTypeOf("Summary"))),
   ListOf(NonNullOf(ListOf(ScalarType("Date"))))}

\* No MockList, or a MockList that fits the field: its function returns a
\* MockList only for a list of lists.
MockListsFor(type) ==
  {NotCalled} \cup
    {list \in MockLists :
       list.wrapped = "MockList"
         => getNullableType(getNullableType(type).ofType).kind = "List"}

MockListInit ==
  /\ mockListCall \in
       UNION {{[fieldType |-> type, mocks |-> mocks, list |-> list] :
                 mocks \in SUBSET {"String"}, list \in MockListsFor(type)} :
              type \in MockedListTypes}
  /\ mockListResult = NotCalled
  /\ wrappedFunctionCalls = 0
  /\ IdleMerge
  /\ IdleArgs
  /\ IdleChain
  /\ IdleErrors
  /\ IdleSerialize
  /\ IdleObjectField
  /\ IdleMock
  /\ IdleTypeDefs
  /\ IdleFormData

\* The parent's value for the field is a function returning the MockList:
\* the mock resolver returns result.mock(...).
MockFieldWithMockList(k) ==
  /\ mockListResult = NotCalled
  /\ mockListCall.list # NotCalled
  /\ LET r == MockListMock(mockListCall.list, getNullableType(mockListCall.fieldType),
                           mockListCall.mocks, k)
     IN /\ mockListResult' = r.arr
        /\ wrappedFunctionCalls' = wrappedFunctionCalls + r.calls
  /\ UNCHANGED mockListCall

\* The parent has no value for the field: the list branch of mockType.
MockFieldOfListType ==
  /\ mockListResult = NotCalled
  /\ mockListCall.list = NotCalled
  /\ mockListResult' = mockType(mockListCall.fieldType, mockListCall.mocks)
  /\ UNCHANGED <<mockListCall, wrappedFunctionCalls>>

MockListStep ==
  \/ \E k \in 0..(RandomSteps - 1) : MockFieldWithMockList(k)
  \/ MockFieldOfListType

MockListNext ==
  MockListStep
    /\ UNCHANGED <<mergeVars, argsVars, chainVars, errorVars, serializeVars,
                   objectFieldVars, mockVars, typeDefsVars, formDataVars>>

SpecMockList == MockListInit /\ [][MockListNext]_vars

(***************************************************************************)
(* Properties of mocked lists.                                             *)
(***************************************************************************)
\* C18: the list MockList.mock returns has exactly len items when len is a
\* number and between len[0] and len[1] items, both included, when len is a
\* pair, and the MockList's function has been called once per item; a field of
\* list type with no MockList and no value on the parent gets exactly 2 items.
C18_MockListLength ==
  mockListResult # NotCalled =>
    /\ mockListResult.t = "array"
    /\ IF mockListCall.list = NotCalled
       THEN Len(mockListResult.items) = 2
       ELSE LET list == mockListCall.list IN
            /\ ~list.isArray => Len(mockListResult.items) = list.low
            /\ list.isArray => /\ list.low <= Len(mockListResult.items)
                               /\ Len(mockListResult.items) <= list.high
            /\ list.wrapped # "undefined" =>
                 wrappedFunctionCalls = Len(mockListResult.items)

\* new MockList([1, 3], f).mock returned three items and called f three times.
C18_Witness ==
  /\ mockListResult # NotCalled
  /\ mockListCall.list # NotCalled
  /\ mockListCall.list.isArray
  /\ mockListCall.list.low = 1
  /\ mockListCall.list.high = 3
  /\ mockListCall.list.wrapped = "value"
  /\ Len(mockListResult.items) = 3
  /\ wrappedFunctionCalls = 3

\* A field of type [[Date]!] without a value on the parent got two lists of two.
C18_WitnessDefault ==
  /\ mockListResult # NotCalled
  /\ mockListCall.list = NotCalled
  /\ Len(mockListResult.items) = 2
  /\ mockListResult.items[1].t = "array"
  /\ Len(mockListResult.items[1].items) = 2

(***************************************************************************)
(* Schema building: buildSchemaFromTypeDefinitions (in its two versions)   *)
(* and concatenateTypeDefs.                                                *)
(*                                                                         *)
(* A typeDefinitions value is tagged by t: a string (text is the string),  *)
(* an AST node (text is what print gives for it), a function (text is its  *)
(* name), an array (items), or a number, a plain object, null, undefined.  *)
(***************************************************************************)
TypeDef(t, text) == [t |-> t, text |-> text, items |-> <<>>]
TypeDefArray(items) == [t |-> "array", text |-> "", items |-> items]

\* String.prototype.trim on the texts of the model
Trim(text) ==
  IF text = " type A " THEN "type A"
  ELSE IF text = "type C\n" THEN "type C"
  ELSE text

\* What the typedef functions of the model return: f and g refer to each
\* other, s refers to itself, h returns an array with a number in it.
FunctionReturns(name) ==
  IF name = "f" THEN <<TypeDef("string", "type A"), TypeDef("function", "g")>>
  ELSE IF name = "g" THEN <<TypeDef("function", "f"), TypeDef("string", "type B")>>
  ELSE IF name = "s" THEN <<TypeDef("function", "s"), TypeDef("string", " type A ")>>
  ELSE <<TypeDef("number", "5")>>

\* typeof value
TypeOf(value) ==
  IF value.t \in {"string", "function", "number", "undefined"} THEN value.t
  ELSE "object"

\* (typeDefinitions as ASTNode).kind !== undefined: reading a property of null
\* or undefined throws a TypeError.
isDocumentNode(value) ==
  IF value.t \in {"null", "undefined"} THEN "TypeError"
  ELSE IF value.t = "ast" THEN "true"
  ELSE "false"

\* isASTNode of ../Interfaces; ofNullish is what it does for null and
\* undefined, "TypeError" or "false".
isASTNode(value, ofNullish) ==
  IF value.t \in {"null", "undefined"} THEN ofNullish
  ELSE IF value.t = "ast" THEN "true"
  ELSE "false"

\* uniq(array), from position k on with the accumulator so far
RECURSIVE UniqFrom(_, _, _)
UniqFrom(array, k, accumulator) ==
  IF k > Len(array) THEN accumulator
  ELSE UniqFrom(array, k + 1,
         IF \E i \in 1..Len(accumulator) : accumulator[i] = array[k]
         THEN accumulator ELSE Append(accumulator, array[k]))

uniq(array) == UniqFrom(array, 1, <<>>)

\* array.join('\n')
RECURSIVE JoinLinesFrom(_, _, _)
JoinLinesFrom(array, k, joined) ==
  IF k > Len(array) THEN joined
  ELSE JoinLinesFrom(array, k + 1,
         IF k = 1 THEN array[k] ELSE joined \o "\n" \o array[k])

\* A string of resolvedTypeDefinitions: its text, and the definitions (the
\* strings and printed ASTs pushed at lines 21 and 23) that the text is made
\* of, which for a string returned by a nested call are several, joined by
\* newlines.
ResolvedTypeDef(text, definitions) == [text |-> text, definitions |-> definitions]

\* The definitions of the strings of an array, one after the other.
RECURSIVE DefinitionsFrom(_, _)
DefinitionsFrom(array, k) ==
  IF k > Len(array) THEN <<>>
  ELSE array[k].definitions \o DefinitionsFrom(array, k + 1)

\* st holds the state of a call: the shared calledFunctionRefs, the call's own
\* resolvedTypeDefinitions, the error thrown ("none" if none) and, in
\* invoked, every call typeDef() of a typedef function so far.
ConcatState(error, calledFunctionRefs, resolvedTypeDefinitions, invoked) ==
  [error |-> error, called |-> calledFunctionRefs,
   resolved |-> resolvedTypeDefinitions, invoked |-> invoked]

\* calledFunctionRefs after a nested call: the array is passed by reference,
\* so the nested call's pushes are the caller's too.
SharedRefs(outer, inner) == inner

\* concatenateTypeDefs(typeDefinitionsAry, calledFunctionRefs): the error it
\* throws, if any, the text it returns, and calledFunctionRefs afterwards.
\* ConcatFrom is the forEach from position k on.
RECURSIVE concatenateTypeDefs(_, _, _, _)
RECURSIVE ConcatFrom(_, _, _, _)
ConcatFrom(ary, k, st, ofNullish) ==
  IF k > Len(ary) THEN st
  ELSE LET typeDef == ary[k] IN
    IF TypeOf(typeDef) = "function"
    THEN IF \E i \in 1..Len(st.called) : st.called[i] = typeDef.text
         THEN ConcatFrom(ary, k + 1, st, ofNullish)
         ELSE LET pushed == Append(st.called, typeDef.text)
                  inner == concatenateTypeDefs(FunctionReturns(typeDef.text), pushed,
                                               Append(st.invoked, typeDef.text), ofNullish)
              IN IF inner.error # "none"
                 THEN ConcatState(inner.error, SharedRefs(pushed, inner.called),
                                  st.resolved, inner.invoked)
                 ELSE ConcatFrom(ary, k + 1,
                        ConcatState("none", SharedRefs(pushed, inner.called),
                                    Append(st.resolved,
                                           ResolvedTypeDef(inner.text, inner.definitions)),
                                    inner.invoked),
                        ofNullish)
    ELSE IF TypeOf(typeDef) = "string"
    THEN ConcatFrom(ary, k + 1,
           [st EXCEPT !.resolved =
              Append(@, ResolvedTypeDef(Trim(typeDef.text), <<Trim(typeDef.text)>>))],
           ofNullish)
    ELSE IF isASTNode(typeDef, ofNullish) = "true"
    THEN ConcatFrom(ary, k + 1,
           [st EXCEPT !.resolved =
              Append(@, ResolvedTypeDef(Trim(typeDef.text), <<Trim(typeDef.text)>>))],
           ofNullish)
    ELSE IF isASTNode(typeDef, ofNullish) = "TypeError"
    THEN [st EXCEPT !.error = "TypeError"]
    ELSE [st EXCEPT !.error = "SchemaError"]

concatenateTypeDefs(typeDefinitionsAry, calledFunctionRefs, invoked, ofNullish) ==
  LET r == ConcatFrom(typeDefinitionsAry, 1,
                      ConcatState("none", calledFunctionRefs, <<>>, invoked), ofNullish)
      trimmed == [i \in 1..Len(r.resolved) |-> Trim(r.resolved[i].text)]
      unique == uniq(trimmed)
      first(text) == CHOOSE i \in 1..Len(trimmed) :
                       /\ trimmed[i] = text
                       /\ \A j \in 1..(i - 1) : trimmed[j] # text
  IN [error |-> r.error,
      called |-> r.called,
      invoked |-> r.invoked,
      text |-> IF r.error # "none" THEN "" ELSE JoinLinesFrom(unique, 1, ""),
      definitions |-> IF r.error # "none" THEN <<>>
                      ELSE DefinitionsFrom(
                             [i \in 1..Len(unique) |-> r.resolved[first(unique[i])]], 1)]

\* What a call did: the error it threw ("none" if it returned), whether parse
\* and buildASTSchema were called, and the text handed to parse.
Outcome(error, parsed, built, text) ==
  [error |-> error, parsed |-> parsed, built |-> built, text |-> text]

\* buildSchemaFromTypeDefinitions, the version that tests isASTNode
buildSchemaFromTypeDefinitions(typeDefinitions, ofNullish) ==
  IF isASTNode(typeDefinitions, ofNullish) = "TypeError"
  THEN Outcome("TypeError", FALSE, FALSE, "")
  ELSE IF isASTNode(typeDefinitions, ofNullish) = "true"
  THEN Outcome("none", FALSE, TRUE, typeDefinitions.text)
  ELSE IF TypeOf(typeDefinitions) = "string"
  THEN Outcome("none", TRUE, TRUE, typeDefinitions.text)
  ELSE IF typeDefinitions.t # "array"
  THEN Outcome("SchemaError", FALSE, FALSE, "")
  ELSE LET c == concatenateTypeDefs(typeDefinitions.items, <<>>, <<>>, ofNullish) IN
       IF c.error # "none" THEN Outcome(c.error, FALSE, FALSE, "")
       ELSE Outcome("none", TRUE, TRUE, c.text)

\* buildSchemaFromTypeDefinitions, the version that tests isDocumentNode
buildSchemaFromDocumentNodeOrTypeDefinitions(typeDefinitions, ofNullish) ==
  IF isDocumentNode(typeDefinitions) = "TypeError"
  THEN Outcome("TypeError", FALSE, FALSE, "")
  ELSE IF isDocumentNode(typeDefinitions) = "true"
  THEN Outcome("none", FALSE, TRUE, typeDefinitions.text)
  ELSE IF TypeOf(typeDefinitions) # "string"
  THEN IF typeDefinitions.t # "array"
       THEN Outcome("SchemaError", FALSE, FALSE, "")
       ELSE LET c == concatenateTypeDefs(typeDefinitions.items, <<>>, <<>>, ofNullish) IN
            IF c.error # "none" THEN Outcome(c.error, FALSE, FALSE, "")
            ELSE Outcome("none", TRUE, TRUE, c.text)
  ELSE Outcome("none", TRUE, TRUE, typeDefinitions.text)

\* ---- inputs ----
TypeDefElements ==
  {TypeDef("string", "type A"), TypeDef("string", " type A "),
   TypeDef("ast", "type C\n"),
   TypeDef("function", "f"), TypeDef("function", "g"), TypeDef("function", "s"),
   TypeDef("function", "h"),
   TypeDef("number", "5"), TypeDef("object", "{}"),
   TypeDef("null", ""), TypeDef("undefined", "")}

TypeDefArrays ==
  {TypeDefArray(items) :
     items \in UNION {[1..n -> TypeDefElements] : n \in 0..MaxTypeDefs}}

TypeDefinitions == TypeDefElements \cup TypeDefArrays

TypeDefsInit ==
  /\ typeDefsCall \in
       {[function |-> "buildSchemaFromTypeDefinitions (isASTNode)", typeDefinitions |-> d] :
          d \in TypeDefinitions}
         \cup
       {[function |-> "buildSchemaFromTypeDefinitions (isDocumentNode)", typeDefinitions |-> d] :
          d \in TypeDefinitions}
         \cup
       {[function |-> "concatenateTypeDefs", typeDefinitions |-> d] : d \in TypeDefArrays}
  /\ buildOutcome = NotCalled
  /\ concatenated = NotCalled
  /\ IdleMerge
  /\ IdleArgs
  /\ IdleChain
  /\ IdleErrors
  /\ IdleSerialize
  /\ IdleObjectField
  /\ IdleMock
  /\ IdleMockList
  /\ IdleFormData

BuildSchemaFromTypeDefinitions(ofNullish) ==
  /\ buildOutcome = NotCalled
  /\ typeDefsCall.function = "buildSchemaFromTypeDefinitions (isASTNode)"
  /\ buildOutcome' = buildSchemaFromTypeDefinitions(typeDefsCall.typeDefinitions, ofNullish)
  /\ UNCHANGED <<typeDefsCall, concatenated>>

BuildSchemaFromDocumentNodeOrTypeDefinitions(ofNullish) ==
  /\ buildOutcome = NotCalled
  /\ typeDefsCall.function = "buildSchemaFromTypeDefinitions (isDocumentNode)"
  /\ buildOutcome' = buildSchemaFromDocumentNodeOrTypeDefinitions(
                       typeDefsCall.typeDefinitions, ofNullish)
  /\ UNCHANGED <<typeDefsCall, concatenated>>

ConcatenateTypeDefs(ofNullish) ==
  /\ buildOutcome = NotCalled
  /\ typeDefsCall.function = "concatenateTypeDefs"
  /\ LET c == concatenateTypeDefs(typeDefsCall.typeDefinitions.items, <<>>, <<>>, ofNullish)
     IN /\ buildOutcome' = Outcome(c.error, FALSE, FALSE, c.text)
        /\ concatenated' = c
  /\ UNCHANGED typeDefsCall

TypeDefsStep ==
  \E ofNullish \in {"TypeError", "false"} :
    \/ BuildSchemaFromTypeDefinitions(ofNullish)
    \/ BuildSchemaFromDocumentNodeOrTypeDefinitions(ofNullish)
    \/ ConcatenateTypeDefs(ofNullish)

TypeDefsNext ==
  TypeDefsStep
    /\ UNCHANGED <<mergeVars, argsVars, chainVars, errorVars, serializeVars,
                   objectFieldVars, mockVars, mockListVars, formDataVars>>

SpecTypeDefs == TypeDefsInit /\ [][TypeDefsNext]_vars

(***************************************************************************)
(* The variables map of the transformed request.                           *)
(***************************************************************************)
\* Every key of the original request's variables is in the returned map with
\* its original value.
SuppliedVariablesKept ==
  \A k \in DOMAIN originalRequest.variables :
    /\ k \in DOMAIN transformed.variables
    /\ transformed.variables[k] = originalRequest.variables[k]

\* In a document with several operations every injected argument's variable
\* is bound to the value serialized for that use.
BoundPerUse ==
  LET operations == OperationsOf(transformed.document) IN
  Len(operations) > 1 =>
    \A o \in 1..Len(operations) :
      \A inj \in Injections(operations[o]) :
        LET selection == operations[o].selectionSet.selections[inj[1]]
            argument == RootFields(RootTypeOf(operations[o]))[selection.name][inj[2]]
        IN \A i \in ArgumentsNamed(selection, argument.name) :
             transformed.variables[selection.arguments[i].value.name] =
               serializeArgumentValue(argument.type, schemaArgs[argument.name])

\* C21: the variables map returned by transformRequest contains every key of
\* the original request's variables with its original value (no generated
\* variable overwrites a supplied value, declared by the operation or not),
\* and in a document with several operations a generated name used by more
\* than one of them is bound to the value serialized for each of its uses.
C21_VariablesPreserved ==
  Returned => SuppliedVariablesKept /\ BoundPerUse

(***************************************************************************)
(* Properties of schema building.                                          *)
(***************************************************************************)
\* A value that is neither a string, an AST node, a function nor an array.
IsOther(value) == value.t \notin {"string", "ast", "function", "array"}

\* C19: buildSchemaFromTypeDefinitions called with typeDefs that is neither a
\* string, an array nor an AST node throws a SchemaError and has called
\* neither parse nor buildASTSchema; concatenateTypeDefs called with an array
\* that has an element that is neither a string, an AST node nor a function
\* throws a SchemaError.
C19_SchemaErrors ==
  buildOutcome # NotCalled =>
    LET typeDefinitions == typeDefsCall.typeDefinitions IN
    IF typeDefsCall.function = "concatenateTypeDefs"
    THEN (\E i \in 1..Len(typeDefinitions.items) : IsOther(typeDefinitions.items[i]))
           => buildOutcome.error = "SchemaError"
    ELSE (IsOther(typeDefinitions) \/ typeDefinitions.t = "function")
           => /\ buildOutcome.error = "SchemaError"
              /\ ~buildOutcome.parsed
              /\ ~buildOutcome.built

(***************************************************************************)
(* Properties of concatenateTypeDefs.                                      *)
(***************************************************************************)
\* The trimmed definitions of an array in the order in which they are met,
\* each typedef function being entered where it is first met: acc holds the
\* functions entered and the definitions met so far.
RECURSIVE MetFrom(_, _, _)
MetFrom(ary, k, acc) ==
  IF k > Len(ary) THEN acc
  ELSE LET typeDef == ary[k] IN
       MetFrom(ary, k + 1,
         IF typeDef.t = "function"
         THEN IF typeDef.text \in acc.entered THEN acc
              ELSE MetFrom(FunctionReturns(typeDef.text), 1,
                           [acc EXCEPT !.entered = @ \cup {typeDef.text}])
         ELSE IF typeDef.t \in {"string", "ast"}
         THEN [acc EXCEPT !.met = Append(@, Trim(typeDef.text))]
         ELSE acc)

DefinitionsMet(ary) == MetFrom(ary, 1, [entered |-> {}, met |-> <<>>]).met

\* concatenateTypeDefs was called and returned.
Concatenated == concatenated # NotCalled /\ concatenated.error = "none"

InvokedAtMostOnce ==
  \A i, j \in 1..Len(concatenated.invoked) :
    i # j => concatenated.invoked[i] # concatenated.invoked[j]

EachDefinitionOnce ==
  \A i, j \in 1..Len(concatenated.definitions) :
    i # j => concatenated.definitions[i] # concatenated.definitions[j]

\* C22: a call of concatenateTypeDefs on an array of strings, ASTs and typedef
\* functions, also functions whose arrays refer to each other or to
\* themselves, returns; it has invoked each distinct function at most once,
\* and its output consists of the distinct trimmed definitions, each exactly
\* once, in the order of their first occurrence.
C22_ConcatenateOnce ==
  Concatenated =>
    /\ InvokedAtMostOnce
    /\ EachDefinitionOnce
    /\ concatenated.definitions = uniq(DefinitionsMet(typeDefsCall.typeDefinitions.items))

(***************************************************************************)
(* The upload link's FormData (createServerHttpLink.ts), a subclass of the *)
(* form-data package's class that refuses to report a length once a value  *)
(* of unknowable length was appended.                                      *)
(*                                                                         *)
(* A value is described by what append reads of it; options by whether a   *)
(* knownLength was given and which.                                        *)
(***************************************************************************)
FormValue(name, isBuffer, type, hasPath, readable, ownHttpVersion) ==
  [name |-> name, isBuffer |-> isBuffer, type |-> type, hasPath |-> hasPath,
   readable |-> readable, ownHttpVersion |-> ownHttpVersion]

FormValues ==
  {FormValue("Buffer", TRUE, "object", FALSE, FALSE, FALSE),
   FormValue("string", FALSE, "string", FALSE, FALSE, FALSE),
   FormValue("fs.ReadStream", FALSE, "object", TRUE, TRUE, FALSE),
   FormValue("http.IncomingMessage", FALSE, "object", FALSE, TRUE, TRUE),
   FormValue("stream.Readable", FALSE, "object", FALSE, TRUE, FALSE)}

\* optionsOrFilename: nothing (the default {}), a filename, or an object with
\* a knownLength.
AppendOptions(given, filename, hasKnownLength, knownLength) ==
  [given |-> given, filename |-> filename, hasKnownLength |-> hasKnownLength,
   knownLength |-> knownLength]

OptionsOrFilenames ==
  {AppendOptions("nothing", "", FALSE, 0),
   AppendOptions("string", "a.txt", FALSE, 0),
   AppendOptions("object", "", TRUE, 0),
   AppendOptions("object", "", TRUE, 10)}

\* !options.knownLength
KnownLengthFalsy(options) == ~options.hasKnownLength \/ options.knownLength = 0

\* The condition of append under which hasUnknowableLength is set
UnknowableLength(value, options) ==
  /\ KnownLengthFalsy(options)
  /\ ~value.isBuffer
  /\ value.type # "string"
  /\ ~value.hasPath
  /\ ~(value.readable /\ value.ownHttpVersion)

FormDataInit ==
  /\ hasUnknowableLength = FALSE
  /\ formEntries = <<>>
  /\ appendCalls = <<>>
  /\ lengthResult = NotCalled
  /\ IdleMerge
  /\ IdleArgs
  /\ IdleChain
  /\ IdleErrors
  /\ IdleSerialize
  /\ IdleObjectField
  /\ IdleMock
  /\ IdleMockList
  /\ IdleTypeDefs

\* append(key, value, optionsOrFilename)
FormDataAppend(value, optionsOrFilename) ==
  /\ Len(appendCalls) < MaxAppends
  /\ hasUnknowableLength' = IF UnknowableLength(value, optionsOrFilename) THEN TRUE
                            ELSE hasUnknowableLength
  /\ formEntries' = Append(formEntries, [value |-> value, options |-> optionsOrFilename])
  /\ appendCalls' = Append(appendCalls, [value |-> value, options |-> optionsOrFilename])
  /\ UNCHANGED lengthResult

\* What a length method does: it returns null, or it calls the underlying
\* form's method of the same name, whose entries are the first `entries`.
LengthResult(method, returned) ==
  [method |-> method, returned |-> returned, entries |-> Len(formEntries),
   after |-> Len(appendCalls)]

\* getLength(callback)
FormDataGetLength ==
  /\ lengthResult' = LengthResult("getLength",
                        IF hasUnknowableLength THEN "null" ELSE "super.getLength")
  /\ UNCHANGED <<hasUnknowableLength, formEntries, appendCalls>>

\* getLengthSync()
FormDataGetLengthSync ==
  /\ lengthResult' = LengthResult("getLengthSync",
                        IF hasUnknowableLength THEN "null" ELSE "super.getLengthSync")
  /\ UNCHANGED <<hasUnknowableLength, formEntries, appendCalls>>

FormDataStep ==
  \/ \E value \in FormValues, optionsOrFilename \in OptionsOrFilenames :
       FormDataAppend(value, optionsOrFilename)
  \/ FormDataGetLength
  \/ FormDataGetLengthSync

FormDataNext ==
  FormDataStep
    /\ UNCHANGED <<mergeVars, argsVars, chainVars, errorVars, serializeVars,
                   objectFieldVars, mockVars, mockListVars, typeDefsVars>>

SpecFormData == FormDataInit /\ [][FormDataNext]_vars

(***************************************************************************)
(* Properties of FormData.                                                 *)
(***************************************************************************)
\* An append call whose value is not a Buffer, not a string, has no path, is
\* not a readable HTTP response and came without a knownLength option.
OfUnknowableLength(call) ==
  /\ ~call.value.isBuffer
  /\ call.value.type # "string"
  /\ ~call.value.hasPath
  /\ ~(call.value.readable /\ call.value.ownHttpVersion)
  /\ ~call.options.hasKnownLength

\* Such a call is among the first n append calls.
UnknowableAppended(n) ==
  \E i \in 1..n : OfUnknowableLength(appendCalls[i])

\* C23: hasUnknowableLength is false at construction and never goes back to
\* false; a getLength or getLengthSync call made after a value of unknowable
\* length (no Buffer, no string, no path, no readable HTTP response, no
\* knownLength option) was appended returns null, whatever was appended
\* since; one made when no such value was ever appended calls the underlying
\* form's method; and every append has handed its value to the underlying
\* form.
C23_UnknowableLength ==
  /\ ~hasUnknowableLength
  /\ [][hasUnknowableLength => hasUnknowableLength']_vars
  /\ [](lengthResult # NotCalled =>
          IF UnknowableAppended(lengthResult.after)
          THEN lengthResult.returned = "null"
          ELSE lengthResult.returned = "super." \o lengthResult.method)
  /\ [](formEntries = appendCalls)

====
